---- MODULE Spec2Model ----
(***************************************************************************)
(* FSM definition parser (FSMParser), indexing normalizer, rule validation *)
(* and execution engine (runFSM) of fsm-whisperer, with the enumerator's   *)
(* getTransition.                                                          *)
(*                                                                         *)
(* Representation.  A JavaScript string whose characters matter (a symbol, *)
(* a transition target, the run input) is a sequence of one-character      *)
(* strings.  A text is the sequence of its lines (fileContent.split), and  *)
(* a line is a record of the tokens the parser's regular expressions       *)
(* extract from it, with its case-folded characters (toks) cut into the    *)
(* pieces the keywords are made of.  The transitions object                *)
(* (Record<number, ...>) is a function whose DOMAIN is the set of its keys.*)
(***************************************************************************)
EXTENDS Integers, Sequences, FiniteSets, TLC

VARIABLES
  text,          \* fileContent.split('\n'): the lines given to parse
  pc,            \* position of the parse call / run call
  parser,        \* the FSMParser instance: data, fieldsFound, currentLine (+ the exception in flight)
  authored,      \* history: this.data as it was when parseFields ended
  fsm,           \* the FSMData returned by parse (argument of runFSM)
  input,         \* runFSM: the input string
  transitionMap, \* runFSM: the lookup "state,symbol" -> nextState
  currentState,  \* runFSM: let currentState
  path,          \* runFSM: const path
  pos,           \* runFSM: number of loop iterations done (characters consumed or tried)
  result,        \* runFSM: the returned object
  pending,       \* the texts of the parseFSMFile calls still to come
  calls,         \* history: the finished parseFSMFile calls, each with its text and outcome
  runs,          \* history: the finished runFSM calls, each with its arguments and result
  chunks,        \* generateFSMSteps: const chunks
  steps,         \* generateFSMSteps: const steps
  idx,           \* parseFields / parseTransitions run line by line: let i of the loop in progress
  visits,        \* history: the lines the two loops have read, in order, each with the loop that read it
  file,          \* UploadPage: useState file (<<>> is null, <<f>> a File with name and content)
  error,         \* UploadPage: useState error (<<>> is null)
  isLoading,     \* UploadPage: useState isLoading
  promise,       \* UploadPage: the file.text() awaited by handleValidate, with the File it was called on
  context,       \* FSMProvider: fsmData and fileName (<<>> is null)
  location,      \* the route shown
  tiles,         \* getCorrectTiles: the tiles returned (<<>> before the call)
  currentStep,          \* GenerateExcelPage: useState currentStep
  experimentCount,      \* GenerateExcelPage: useState experimentCount
  experiments,          \* GenerateExcelPage: useState experiments
  stockConcentration,   \* GenerateExcelPage: useState stockConcentration
  targetConcentration,  \* GenerateExcelPage: useState targetConcentration
  totalVolume,          \* GenerateExcelPage: useState totalVolume
  excelError,           \* GenerateExcelPage: useState error (<<>> is null)
  testInput,              \* TestFSMPage: useState input
  testResult,             \* TestFSMPage: useState result (<<>> is null)
  testCurrentState,       \* TestFSMPage: useState currentState (null is undefined)
  highlightedTransition,  \* TestFSMPage: useState highlightedTransition (<<>> is undefined)
  isAnimating,            \* TestFSMPage: useState isAnimating
  testCurrentStep,        \* TestFSMPage: useState currentStep
  timers                  \* the callbacks setTimeout holds, in the order they were set

vars == <<text, pc, parser, authored, fsm, input, transitionMap, currentState, path, pos, result,
          pending, calls, runs, chunks, steps, idx, visits,
          file, error, isLoading, promise, context, location, tiles,
          currentStep, experimentCount, experiments, stockConcentration, targetConcentration,
          totalVolume, excelError,
          testInput, testResult, testCurrentState, highlightedTransition, isAnimating,
          testCurrentStep, timers>>

(***************************************************************************)
(* Bounds of the model                                                     *)
(***************************************************************************)
MaxStates == 2      \* largest `states` value, row label, target, start/accept state
MaxRows == 2        \* most transition rows in a text
MaxInputLen == 3    \* longest run input

null == -2          \* JavaScript null in a numeric field

Alphabet == {"0", "1"}

(***************************************************************************)
(* Helpers                                                                 *)
(***************************************************************************)
Min(S) == CHOOSE x \in S : \A y \in S : x <= y
Max(S) == CHOOSE x \in S : \A y \in S : x >= y

Digits == <<"0", "1", "2", "3", "4", "5", "6", "7", "8", "9">>

DigitVal(c) == CHOOSE d \in 0..9 : Digits[d + 1] = c

\* parseInt(s, 10) on a string of decimal digits
RECURSIVE parseInt(_)
parseInt(s) ==
  IF Len(s) = 0 THEN 0
  ELSE 10 * parseInt(SubSeq(s, 1, Len(s) - 1)) + DigitVal(s[Len(s)])

\* the decimal string of a one-digit number (what a text's author writes)
DigitStr(n) == <<Digits[n + 1]>>

(***************************************************************************)
(* Errors                                                                  *)
(***************************************************************************)
NoErr == [lineNumber |-> -1, msg |-> "", fields |-> <<>>, actual |-> 0, expected |-> 0]

\* new FSMValidationError(lineNumber, message); a and b are the numbers the
\* message interpolates
FSMValidationError(lineNumber, msg, fields, a, b) ==
  [lineNumber |-> lineNumber, msg |-> msg, fields |-> fields, actual |-> a, expected |-> b]

throw(st, e) == [st EXCEPT !.err = e]

(***************************************************************************)
(* FSMParser                                                               *)
(***************************************************************************)
REQUIRED_FIELDS == <<"name", "states", "symbols", "transitions", "startstate", "acceptstate">>

\* the keywords that end a transitions block
\* a list of block enders that leaves startstate out
BlockEndersWithoutStartstate == {"name", "states", "symbols", "acceptstate"}

BlockEnders == {"name", "states", "symbols", "startstate", "acceptstate"}

\* constructor()
NewParser ==
  [data |-> [name |-> "", states |-> null, symbols |-> <<>>, transitions |-> <<>>,
             startstate |-> null, acceptstate |-> null, zeroIndexed |-> FALSE],
   fieldsFound |-> {},
   currentLine |-> 0,
   err |-> NoErr]

\* a keyword, cut into the pieces that other keywords share ("states" is
\* "state" + "s", "startstate" is "start" + "state")
KeywordToks(field) ==
  CASE field = "states" -> <<"state", "s">>
    [] field = "startstate" -> <<"start", "state">>
    [] field = "acceptstate" -> <<"accept", "state">>
    [] OTHER -> <<field>>

\* String.prototype.includes, on pieces
includes(hay, needle) ==
  \E i \in 0..(Len(hay) - Len(needle)) : SubSeq(hay, i + 1, i + Len(needle)) = needle

\* lines.join('').toLowerCase(): the lines end to end, nothing between them
RECURSIVE join(_)
join(lines) ==
  IF Len(lines) = 0 THEN <<>> ELSE lines[1].toks \o join(Tail(lines))

\* checkRequiredFields(lines)
checkRequiredFields(st, lines) ==
  LET contentLower == join(lines)
      absent(field) == ~includes(contentLower, KeywordToks(field))
      missingFields == SelectSeq(REQUIRED_FIELDS, absent)
  IN IF Len(missingFields) > 0
     THEN throw(st, FSMValidationError(0, "Missing required fields", missingFields, 0, 0))
     ELSE st

\* parseName(line)
parseName(st, line) ==
  IF ~line.ok
  THEN throw(st, FSMValidationError(st.currentLine, "Name must be in format", <<>>, 0, 0))
  ELSE [st EXCEPT !.data.name = line.str, !.fieldsFound = @ \cup {"name"}]

\* parseStates(line)
parseStates(st, line) ==
  IF ~line.ok
  THEN throw(st, FSMValidationError(st.currentLine, "States must be an integer", <<>>, 0, 0))
  ELSE [st EXCEPT !.data.states = parseInt(line.num), !.fieldsFound = @ \cup {"states"}]

\* parseSymbols(line)
parseSymbols(st, line) ==
  IF ~line.ok
  THEN throw(st, FSMValidationError(st.currentLine, "Symbols must be in format", <<>>, 0, 0))
  ELSE [st EXCEPT !.data.symbols = line.syms, !.fieldsFound = @ \cup {"symbols"}]

\* parseStartState(line)
parseStartState(st, line) ==
  IF ~line.ok
  THEN throw(st, FSMValidationError(st.currentLine, "Start state must be an integer", <<>>, 0, 0))
  ELSE [st EXCEPT !.data.startstate = parseInt(line.num), !.fieldsFound = @ \cup {"startstate"}]

\* parseAcceptState(line)
parseAcceptState(st, line) ==
  IF ~line.ok
  THEN throw(st, FSMValidationError(st.currentLine, "Accept state must be an integer", <<>>, 0, 0))
  ELSE [st EXCEPT !.data.acceptstate = parseInt(line.num), !.fieldsFound = @ \cup {"acceptstate"}]

\* this.data.transitions[state] = transitions
putRow(transitions, state, row) == (state :> row) @@ transitions

\* parseTransitionLine(line): row.label is match[1], row.nl the matches of
\* newFormatPattern in match[2], row.dotted the well-formed legacy tokens of match[2]
parseTransitionLine(st, row) ==
  IF ~row.rowOk
  THEN throw(st, FSMValidationError(st.currentLine, "Invalid transition format", <<>>, 0, 0))
  ELSE LET state == parseInt(row.label)
           transitions == IF Len(row.nl) = 0 THEN row.dotted ELSE row.nl
       IN IF Len(transitions) = 0
          THEN throw(st, FSMValidationError(st.currentLine, "No valid transitions found", <<>>, 0, 0))
          ELSE [st EXCEPT !.data.transitions = putRow(@, state, transitions)]

\* the while loop of parseTransitions, from index i (0-based, as in the code)
RECURSIVE parseTransitionsLoop(_, _, _)
parseTransitionsLoop(st, lines, i) ==
  IF st.err # NoErr \/ ~(i < Len(lines))
  THEN [st |-> st, i |-> i]
  ELSE LET line == lines[i + 1]
           s1 == [st EXCEPT !.currentLine = i + 1]
       IN IF line.kind = "blank"
          THEN parseTransitionsLoop(s1, lines, i + 1)
          ELSE IF line.kind \in BlockEnders
          THEN [st |-> s1, i |-> i - 1]
          ELSE parseTransitionsLoop(parseTransitionLine(s1, line), lines, i + 1)

\* parseTransitions(lines, startIdx): returns the parser and the index to resume from
parseTransitions(st, lines, startIdx) ==
  LET s1 == [st EXCEPT !.fieldsFound = @ \cup {"transitions"}]
      firstLine == lines[startIdx + 1]
      s2 == IF firstLine.inline
            THEN parseTransitionLine([s1 EXCEPT !.currentLine = startIdx + 1], firstLine)
            ELSE s1
  IN parseTransitionsLoop(s2, lines, startIdx + 1)

\* the while loop of parseFields, from index i (0-based)
RECURSIVE parseFieldsLoop(_, _, _)
parseFieldsLoop(st, lines, i) ==
  IF st.err # NoErr \/ ~(i < Len(lines))
  THEN st
  ELSE LET line == lines[i + 1]
           s1 == [st EXCEPT !.currentLine = i + 1]
       IN CASE line.kind = "blank" -> parseFieldsLoop(s1, lines, i + 1)
            [] line.kind = "name" -> parseFieldsLoop(parseName(s1, line), lines, i + 1)
            [] line.kind = "states" -> parseFieldsLoop(parseStates(s1, line), lines, i + 1)
            [] line.kind = "symbols" -> parseFieldsLoop(parseSymbols(s1, line), lines, i + 1)
            [] line.kind = "transitions" ->
                 LET r == parseTransitions(s1, lines, i)
                 IN parseFieldsLoop(r.st, lines, r.i + 1)
            [] line.kind = "startstate" -> parseFieldsLoop(parseStartState(s1, line), lines, i + 1)
            [] line.kind = "acceptstate" -> parseFieldsLoop(parseAcceptState(s1, line), lines, i + 1)
            [] OTHER -> parseFieldsLoop(s1, lines, i + 1)

\* parseFields(lines)
parseFields(st, lines) == parseFieldsLoop(st, lines, 0)


\* the set of all transition targets: the values pushed to targetStates
targetStates(transitions) ==
  UNION {{parseInt(transitions[s][k][2]) : k \in 1..Len(transitions[s])} : s \in DOMAIN transitions}

\* a test that does not ask for a row labeled 1
looksShiftedFromAnyLabel(data) ==
  LET transitionStates == DOMAIN data.transitions
      numStates == IF data.states = null THEN 0 ELSE data.states
      targets == targetStates(data.transitions)
  IN /\ numStates > 0
     /\ Max(transitionStates) = numStates
     /\ targets # {}
     /\ Min(targets) = 0
     /\ Max(targets) = numStates - 1

\* a test that takes targets within 0..states-1 for a shifted definition
looksShiftedWithin(data) ==
  LET transitionStates == DOMAIN data.transitions
      numStates == IF data.states = null THEN 0 ELSE data.states
  IN /\ numStates > 0
     /\ Min(transitionStates) = 1
     /\ Max(transitionStates) = numStates
     /\ targetStates(data.transitions) \subseteq 0..(numStates - 1)

\* const looksShifted = ...
looksShifted(data) ==
  LET transitionStates == DOMAIN data.transitions
      numStates == IF data.states = null THEN 0 ELSE data.states
      targets == targetStates(data.transitions)
  IN /\ numStates > 0
     /\ Min(transitionStates) = 1
     /\ Max(transitionStates) = numStates
     /\ targets # {}
     /\ Min(targets) = 0
     /\ Max(targets) = numStates - 1

\* rows left under their authored labels
rowsAsAuthored(transitions) == transitions

\* normalized[from - 1] = transitions, for every row
normalizedRows(transitions) ==
  [k \in {from - 1 : from \in DOMAIN transitions} |-> transitions[k + 1]]

\* a rewriting that forgets the accept state
shiftDataKeepingAccept(data) ==
  [data EXCEPT !.transitions = normalizedRows(@),
               !.startstate = IF @ # null THEN @ - 1 ELSE @,
               !.zeroIndexed = TRUE]

\* the rewriting of case B
shiftData(data) ==
  [data EXCEPT !.transitions = normalizedRows(@),
               !.startstate = IF @ # null THEN @ - 1 ELSE @,
               !.acceptstate = IF @ # null THEN @ - 1 ELSE @,
               !.zeroIndexed = TRUE]

\* detectAndNormalizeIndexingScheme()
detectAndNormalizeIndexingScheme(data) ==
  IF DOMAIN data.transitions = {}
  THEN [data EXCEPT !.zeroIndexed = FALSE]
  ELSE IF 0 \in DOMAIN data.transitions
  THEN [data EXCEPT !.zeroIndexed = TRUE]
  ELSE IF looksShifted(data)
  THEN shiftData(data)
  ELSE [data EXCEPT !.zeroIndexed = FALSE]

\* expectedStates of validateRules
expectedStates(data) ==
  IF data.zeroIndexed THEN 0..(data.states - 1) ELSE 1..data.states

minState(data) == IF data.zeroIndexed THEN 0 ELSE 1
\* an upper limit that takes every definition for 1-based
maxStateOfOneBased(data) == data.states

maxState(data) == IF data.zeroIndexed THEN data.states - 1 ELSE data.states

\* value < minState || value > maxState
outOfRange(data, value) == value < minState(data) \/ value > maxState(data)

\* a check that finds every expected state
unlistedStatesUnchecked(data) == {}

\* the expected states that are no key of this.data.transitions
unlistedStates(data) == expectedStates(data) \ DOMAIN data.transitions

\* a check that accepts every row length
badRowLengthsUnchecked(data) == {}

\* a check that accepts every target
badTargetsUnchecked(data) == {}

\* the states whose row does not have one entry per symbol (by count)
badRowLengths(data) ==
  {s \in DOMAIN data.transitions : Len(data.transitions[s]) # Len(data.symbols)}

\* the <<state, index>> of the entries whose target is no valid state
badTargets(data) ==
  {sk \in UNION {{<<s, k>> : k \in 1..Len(data.transitions[s])} : s \in DOMAIN data.transitions} :
     outOfRange(data, parseInt(data.transitions[sk[1]][sk[2]][2]))}

\* validateRules(): the checks in the order of the code, the first failure throws
validateRules(st) ==
  LET data == st.data
      notFound(field) == field \notin st.fieldsFound
      missing == SelectSeq(REQUIRED_FIELDS, notFound)
      numTransitions == Cardinality(DOMAIN data.transitions)
      expectedCount == Cardinality(expectedStates(data))
      unlisted == unlistedStates(data)
  IN IF Len(missing) > 0
     THEN throw(st, FSMValidationError(0, "Missing required fields", missing, 0, 0))
     ELSE IF numTransitions # expectedCount
     THEN throw(st, FSMValidationError(0, "Number of transitions must equal number of states",
                                       <<>>, numTransitions, expectedCount))
     ELSE IF unlisted # {}
     THEN throw(st, FSMValidationError(0, "State has no transitions defined", <<>>, Min(unlisted), 0))
     ELSE IF outOfRange(data, data.startstate)
     THEN throw(st, FSMValidationError(0, "Start state is invalid", <<>>, data.startstate, 0))
     ELSE IF outOfRange(data, data.acceptstate)
     THEN throw(st, FSMValidationError(0, "Accept state is invalid", <<>>, data.acceptstate, 0))
     ELSE IF badRowLengths(data) # {}
     THEN LET s == Min(badRowLengths(data))
          IN throw(st, FSMValidationError(0, "State has wrong number of transitions", <<>>,
                                          Len(data.transitions[s]), Len(data.symbols)))
     ELSE IF badTargets(data) # {}
     THEN LET s == Min({sk[1] : sk \in badTargets(data)})
              k == Min({sk[2] : sk \in {x \in badTargets(data) : x[1] = s}})
          IN throw(st, FSMValidationError(0, "Transition goes to invalid state", <<>>,
                                          s, parseInt(data.transitions[s][k][2])))
     ELSE st

\* parse(fileContent), as one function of the text
parse(st, lines) ==
  LET s1 == checkRequiredFields(st, lines)
      s2 == IF s1.err # NoErr THEN s1 ELSE parseFields(s1, lines)
      s3 == IF s2.err # NoErr THEN s2
            ELSE [s2 EXCEPT !.data = detectAndNormalizeIndexingScheme(@)]
  IN IF s3.err # NoErr THEN s3 ELSE validateRules(s3)

(***************************************************************************)
(* runFSM                                                                  *)
(***************************************************************************)
\* a key that drops the state
KeyWithoutState(state, symbol) == <<0, symbol>>

\* const key = `${state},${symbol}`
Key(state, symbol) == <<state, symbol>>

\* transitionMap[key] = parseInt(nextState, 10)
putKey(map, key, nextState) == (key :> nextState) @@ map

\* for (const [inputSymbol, nextState] of transitionList), from entry k on
RECURSIVE putTransitionList(_, _, _, _)
putTransitionList(map, state, transitionList, k) ==
  IF k > Len(transitionList) THEN map
  ELSE putTransitionList(
         putKey(map, Key(state, transitionList[k][1]), parseInt(transitionList[k][2])),
         state, transitionList, k + 1)

\* for (const [state, transitionList] of Object.entries(fsm.transitions)):
\* integer keys are visited in ascending order
RECURSIVE buildTransitionMap(_, _, _)
buildTransitionMap(map, transitions, todo) ==
  IF todo = {} THEN map
  ELSE LET state == Min(todo)
       IN buildTransitionMap(putTransitionList(map, state, transitions[state], 1),
                             transitions, todo \ {state})

NoResult == [accepted |-> FALSE, path |-> <<>>, endState |-> null, error |-> <<>>]

\* the result with an omitted error, whatever the verdict
rejectionWithoutError(p, state, symbol) ==
  [accepted |-> FALSE, path |-> p, endState |-> state, error |-> <<>>]

\* return { accepted: false, path, endState: currentState, error: `No transition for ...` }
\* (the error is a one-element sequence holding what the message interpolates;
\* the empty sequence is an absent error field)
rejection(p, state, symbol) ==
  [accepted |-> FALSE, path |-> p, endState |-> state,
   error |-> <<[symbol |-> symbol, state |-> state]>>]

\* a verdict that ignores the accept state
completionAlwaysAccepting(p, state, acceptstate) ==
  [accepted |-> TRUE, path |-> p, endState |-> state, error |-> <<>>]

\* return { accepted: currentState === fsm.acceptstate, path, endState: currentState }
completion(p, state, acceptstate) ==
  [accepted |-> (state = acceptstate), path |-> p, endState |-> state, error |-> <<>>]

(***************************************************************************)
(* getTransition of the step generator                                     *)
(***************************************************************************)
getTransition(fsmData, state, symbol) ==
  IF state \notin DOMAIN fsmData.transitions THEN null
  ELSE LET stateTransitions == fsmData.transitions[state]
           hits == {k \in 1..Len(stateTransitions) : stateTransitions[k][1] = symbol}
       IN IF hits = {} THEN null ELSE parseInt(stateTransitions[Min(hits)][2])

(***************************************************************************)
(* The lines of a definition text                                          *)
(***************************************************************************)
BlankLine ==
  [kind |-> "blank", ok |-> FALSE, str |-> "", num |-> <<>>, syms |-> <<>>, inline |-> FALSE,
   rowOk |-> FALSE, label |-> <<>>, nl |-> <<>>, dotted |-> <<>>, toks |-> <<>>]

\* Name = "<str>"
NameLine(str) ==
  [BlankLine EXCEPT !.kind = "name", !.ok = TRUE, !.str = str, !.toks = <<"name", "=">>]

\* states = <n>
StatesLine(n) ==
  [BlankLine EXCEPT !.kind = "states", !.ok = TRUE, !.num = DigitStr(n),
                    !.toks = <<"state", "s", "=">>]

\* symbols = {<syms>}
SymbolsLine(syms) ==
  [BlankLine EXCEPT !.kind = "symbols", !.ok = TRUE, !.syms = syms,
                    !.toks = <<"symbols", "=">>]

\* startstate = <n>
StartStateLine(n) ==
  [BlankLine EXCEPT !.kind = "startstate", !.ok = TRUE, !.num = DigitStr(n),
                    !.toks = <<"start", "state", "=">>]

\* acceptstate = <n>
AcceptStateLine(n) ==
  [BlankLine EXCEPT !.kind = "acceptstate", !.ok = TRUE, !.num = DigitStr(n),
                    !.toks = <<"accept", "state", "=">>]

\* <label>: on '<symbol>' move '<target>', ...
RowLine(label, entries) ==
  [BlankLine EXCEPT !.kind = "row", !.rowOk = TRUE, !.label = DigitStr(label), !.nl = entries,
                    !.toks = <<"on">>]

\* transitions =
TransitionsLine ==
  [BlankLine EXCEPT !.kind = "transitions", !.toks = <<"transitions", "=">>]

\* transitions = <label>: on '<symbol>' move '<target>', ...
InlineTransitionsLine(label, entries) ==
  [RowLine(label, entries) EXCEPT !.kind = "transitions", !.inline = TRUE,
                                  !.toks = <<"transitions", "=", "on">>]


(***************************************************************************)
(* The texts and inputs the model draws from                               *)
(***************************************************************************)
Symbols == {<<c>> : c \in Alphabet}

\* the symbol columns of a row: one entry, one entry per symbol, one symbol twice
RowShapes == {<< <<"0">> >>, << <<"0">>, <<"1">> >>, << <<"0">>, <<"0">> >>}

EntriesOf(shape) ==
  {[k \in 1..Len(shape) |-> <<shape[k], DigitStr(t[k])>>] : t \in [1..Len(shape) -> 0..MaxStates]}

Rows == [label : 0..MaxStates, entries : UNION {EntriesOf(shape) : shape \in RowShapes}]

RowSeqs == UNION {[1..n -> Rows] : n \in 0..MaxRows}

DeclaredSymbols == {<< <<"0">>, <<"1">> >>}

\* a definition text laid out as the fixture is: the first row on the
\* "transitions =" line, a blank line after the block
Text(n, syms, rows, start, accept) ==
  <<NameLine("fsm"), StatesLine(n), SymbolsLine(syms)>>
  \o (IF Len(rows) = 0
      THEN <<TransitionsLine>>
      ELSE <<InlineTransitionsLine(rows[1].label, rows[1].entries)>>
           \o [k \in 1..(Len(rows) - 1) |-> RowLine(rows[k + 1].label, rows[k + 1].entries)])
  \o <<BlankLine, StartStateLine(start), AcceptStateLine(accept)>>

Texts ==
  {Text(n, syms, rows, start, accept) :
     n \in 1..MaxStates, syms \in DeclaredSymbols, rows \in RowSeqs,
     start \in 0..MaxStates, accept \in 0..MaxStates}

Inputs == UNION {[1..n -> Alphabet] : n \in 0..MaxInputLen}

\* any FSMData over states 1..MaxStates, valid or not: rows of up to two
\* entries, with missing and with repeated symbols
RunLists ==
  UNION {[1..n -> {<<sym, DigitStr(t)>> : sym \in Symbols, t \in 1..MaxStates}] : n \in 0..2}

FSMDatas ==
  {[name |-> "fsm", states |-> MaxStates, symbols |-> << <<"0">>, <<"1">> >>,
    transitions |-> tr, startstate |-> start, acceptstate |-> accept, zeroIndexed |-> FALSE] :
     tr \in [1..MaxStates -> RunLists], start \in 0..MaxStates, accept \in 1..MaxStates}

(***************************************************************************)
(* parseFSMFile(content): new FSMParser().parse(content), one action per   *)
(* phase of parse                                                          *)
(***************************************************************************)
\* the line-by-line loops not started
LoopsIdle ==
  /\ idx = 0
  /\ visits = <<>>

\* UploadPage and FSMProvider as mounted: the useState initial values
UploadMounted ==
  /\ file = <<>>
  /\ error = <<>>
  /\ isLoading = FALSE
  /\ promise = <<>>

ContextEmpty == context = [fsmData |-> <<>>, fileName |-> <<>>]

\* GenerateExcelPage as mounted: the useState initial values
WizardMounted ==
  /\ currentStep = "count"
  /\ experimentCount = 1
  /\ experiments = <<>>
  /\ stockConcentration = 50
  /\ targetConcentration = 1
  /\ totalVolume = 80
  /\ excelError = <<>>

\* TestFSMPage as mounted: the useState initial values, no timer set
TestPageMounted ==
  /\ testInput = <<>>
  /\ testResult = <<>>
  /\ testCurrentState = null
  /\ highlightedTransition = <<>>
  /\ isAnimating = FALSE
  /\ testCurrentStep = 0
  /\ timers = <<>>

\* nothing but the parser and the engine in use
OthersIdle ==
  /\ LoopsIdle
  /\ UploadMounted
  /\ ContextEmpty
  /\ location = "/"
  /\ tiles = <<>>
  /\ WizardMounted
  /\ TestPageMounted

\* one call of parseFSMFile only, generateFSMSteps not called yet
SingleCall ==
  /\ pending = <<>>
  /\ calls = <<>>
  /\ runs = <<>>
  /\ chunks = <<>>
  /\ steps = <<>>
  /\ OthersIdle

RunIdle ==
  /\ input = <<>>
  /\ transitionMap = <<>>
  /\ currentState = null
  /\ path = <<>>
  /\ pos = 0
  /\ result = NoResult

Init ==
  /\ text \in Texts
  /\ pc = "checkRequiredFields"
  /\ parser = NewParser
  /\ authored = NewParser.data
  /\ fsm = NewParser.data
  /\ RunIdle
  /\ SingleCall

runVars == <<input, transitionMap, currentState, path, pos, result>>

loopVars == <<idx, visits>>

uploadVars == <<file, error, isLoading, promise, context, location>>

excelVars == <<tiles>>

wizardVars == <<currentStep, experimentCount, experiments, stockConcentration, targetConcentration,
                totalVolume, excelError>>

testVars == <<testInput, testResult, testCurrentState, highlightedTransition, isAnimating,
              testCurrentStep, timers>>

pageVars == <<uploadVars, excelVars, wizardVars, testVars>>

otherVars == <<loopVars, pageVars>>

callVars == <<pending, calls, runs, otherVars>>

genVars == <<chunks, steps>>

CheckRequiredFields ==
  /\ pc = "checkRequiredFields"
  /\ parser' = checkRequiredFields(parser, text)
  /\ pc' = IF parser'.err # NoErr THEN "thrown" ELSE "parseFields"
  /\ UNCHANGED <<text, authored, fsm, runVars, callVars, genVars>>

\* line parsing that hands over to validation directly
ParseFieldsThenValidate ==
  /\ pc = "parseFields"
  /\ parser' = parseFields(parser, text)
  /\ pc' = IF parser'.err # NoErr THEN "thrown" ELSE "validateRules"
  /\ authored' = parser'.data
  /\ UNCHANGED <<text, fsm, runVars, callVars, genVars>>

ParseFields ==
  /\ pc = "parseFields"
  /\ parser' = parseFields(parser, text)
  /\ pc' = IF parser'.err # NoErr THEN "thrown" ELSE "normalize"
  /\ authored' = parser'.data
  /\ UNCHANGED <<text, fsm, runVars, callVars, genVars>>

DetectAndNormalizeIndexingScheme ==
  /\ pc = "normalize"
  /\ parser' = [parser EXCEPT !.data = detectAndNormalizeIndexingScheme(@)]
  /\ pc' = "validateRules"
  /\ UNCHANGED <<text, authored, fsm, runVars, callVars, genVars>>

\* validateRules(), then return this.data
ValidateRules ==
  /\ pc = "validateRules"
  /\ parser' = validateRules(parser)
  /\ IF parser'.err # NoErr
     THEN pc' = "thrown" /\ fsm' = fsm
     ELSE pc' = "returned" /\ fsm' = parser'.data
  /\ UNCHANGED <<text, authored, runVars, callVars, genVars>>

(***************************************************************************)
(* runFSM(fsm, input): one action per loop iteration                       *)
(***************************************************************************)
\* the call, up to the first loop test
RunFSM(in) ==
  /\ pc = "returned"
  /\ input' = in
  /\ transitionMap' = buildTransitionMap(<<>>, fsm.transitions, DOMAIN fsm.transitions)
  /\ currentState' = fsm.startstate
  /\ path' = <<[state |-> fsm.startstate, symbol |-> <<>>]>>
  /\ pos' = 0
  /\ result' = NoResult
  /\ pc' = "loop"
  /\ UNCHANGED <<text, parser, authored, fsm, callVars, genVars>>

\* one iteration of for (const symbol of input): the early return, or the push
RunStep ==
  /\ pc = "loop"
  /\ pos < Len(input)
  /\ LET symbol == <<input[pos + 1]>>
         key == Key(currentState, symbol)
     IN IF key \notin DOMAIN transitionMap
        THEN /\ result' = rejection(path, currentState, symbol)
             /\ pc' = "done"
             /\ UNCHANGED <<currentState, path>>
        ELSE LET nextState == transitionMap[key]
             IN /\ path' = Append(path, [state |-> nextState, symbol |-> symbol])
                /\ currentState' = nextState
                /\ pc' = "loop"
                /\ UNCHANGED result
  /\ pos' = pos + 1
  /\ UNCHANGED <<text, parser, authored, fsm, input, transitionMap, callVars, genVars>>

\* the return after the loop
RunReturn ==
  /\ pc = "loop"
  /\ pos = Len(input)
  /\ result' = completion(path, currentState, fsm.acceptstate)
  /\ pc' = "done"
  /\ UNCHANGED <<text, parser, authored, fsm, input, transitionMap, currentState, path, pos, callVars, genVars>>

Next ==
  \/ CheckRequiredFields
  \/ ParseFields
  \/ DetectAndNormalizeIndexingScheme
  \/ ValidateRules
  \/ \E in \in Inputs : RunFSM(in)
  \/ RunStep
  \/ RunReturn

Spec == Init /\ [][Next]_vars

\* runFSM on any FSMData, parsed or not
InitRun ==
  /\ text = <<>>
  /\ pc = "returned"
  /\ parser = NewParser
  /\ authored = NewParser.data
  /\ fsm \in FSMDatas
  /\ RunIdle
  /\ SingleCall

NextRun ==
  \/ \E in \in Inputs : RunFSM(in)
  \/ RunStep
  \/ RunReturn

SpecRun == InitRun /\ [][NextRun]_vars


(***************************************************************************)
(* Properties of runFSM                                                    *)
(***************************************************************************)
\* state has an entry for symbol that leads to target
IsTarget(f, state, symbol, target) ==
  /\ state \in DOMAIN f.transitions
  /\ \E k \in 1..Len(f.transitions[state]) :
       /\ f.transitions[state][k][1] = symbol
       /\ parseInt(f.transitions[state][k][2]) = target

\* state has an entry for symbol
HasEntry(f, state, symbol) ==
  /\ state \in DOMAIN f.transitions
  /\ \E k \in 1..Len(f.transitions[state]) : f.transitions[state][k][1] = symbol

LastState(p) == p[Len(p)].state

\* C1: a lookup that finds no transition ends the run with accepted = false,
\* the path accumulated so far (no entry for the failed character, nothing
\* consumed after it), endState = the state before the failed step and an
\* error; the error is present exactly when some lookup failed.
C1_StructuredRejection ==
  pc = "done" =>
    /\ (result.error # <<>>) <=>
         \E k \in 1..Len(input) :
           /\ k <= Len(result.path)
           /\ ~HasEntry(fsm, result.path[k].state, <<input[k]>>)
    /\ result.error # <<>> =>
         /\ result.accepted = FALSE
         /\ pos >= 1
         /\ Len(result.path) = pos
         /\ \A k \in 2..Len(result.path) : result.path[k].symbol = <<input[k - 1]>>
         /\ result.endState = LastState(result.path)
         /\ ~HasEntry(fsm, result.endState, <<input[pos]>>)
         /\ result.error = <<[symbol |-> <<input[pos]>>, state |-> result.endState]>>

\* a run rejected at its third character
C1_Witness ==
  /\ pc = "done"
  /\ result.error # <<>>
  /\ Len(input) = 3
  /\ Len(result.path) = 3

\* C2: a run that consumes the whole input returns accepted = (state after
\* the last character = acceptstate), endState = that state and no error;
\* on the empty input accepted = (startstate = acceptstate), endState = startstate.
C2_CompletedRun ==
  (pc = "done" /\ Len(result.path) = Len(input) + 1) =>
    /\ result.error = <<>>
    /\ result.endState = LastState(result.path)
    /\ result.accepted = (LastState(result.path) = fsm.acceptstate)
    /\ input = <<>> =>
         /\ result.endState = fsm.startstate
         /\ result.accepted = (fsm.startstate = fsm.acceptstate)

\* a completed run that ends outside the accept state, on a machine whose
\* start state is the accept state
C2_Witness ==
  /\ pc = "done"
  /\ Len(input) = 2
  /\ Len(result.path) = 3
  /\ fsm.startstate = fsm.acceptstate
  /\ ~result.accepted

\* C3: the path starts with {state: startstate} without a symbol; entry k
\* carries the k-th input character and a target of (previous state, that
\* character); its length is 1 + the characters consumed; endState is the
\* state of the last entry.
C3_PathShape ==
  pc \in {"loop", "done"} =>
    LET consumed == IF pc = "done" /\ result.error # <<>> THEN pos - 1 ELSE pos
    IN /\ path[1] = [state |-> fsm.startstate, symbol |-> <<>>]
       /\ Len(path) = 1 + consumed
       /\ \A k \in 2..Len(path) :
            /\ path[k].symbol = <<input[k - 1]>>
            /\ IsTarget(fsm, path[k - 1].state, path[k].symbol, path[k].state)
       /\ currentState = LastState(path)
       /\ pc = "done" => (result.path = path /\ result.endState = LastState(path))

\* a run that visited both states
C3_Witness ==
  /\ pc = "done"
  /\ Len(path) = 4
  /\ {path[k].state : k \in 1..4} = {1, 2}


\* C5: with several entries for one symbol, runFSM follows the first of them,
\* the entry getTransition picks.
C5_FirstMatchWins ==
  pc \in {"loop", "done"} =>
    \A k \in 2..Len(path) :
      path[k].state = getTransition(fsm, path[k - 1].state, path[k].symbol)

(***************************************************************************)
(* Properties of parse                                                     *)
(***************************************************************************)
\* the canonical range of an FSMData
Range(f) == IF f.zeroIndexed THEN 0..(f.states - 1) ELSE 1..f.states

\* what the text says, read off its lines
RowLinesOf(lines) == {n \in 1..Len(lines) : lines[n].rowOk}
RowLabelsOf(lines) == {parseInt(lines[n].label) : n \in RowLinesOf(lines)}
StatesOf(lines) ==
  parseInt(lines[CHOOSE n \in 1..Len(lines) : lines[n].kind = "states"].num)
DeclaredOf(lines) ==
  lines[CHOOSE n \in 1..Len(lines) : lines[n].kind = "symbols"].syms

EntrySymbols(f, s) == {f.transitions[s][k][1] : k \in 1..Len(f.transitions[s])}

\* C4: in a returned FSMData each state has exactly one entry for each
\* declared symbol, and no entry for another symbol.
C4_OneEntryPerSymbol ==
  pc = "returned" =>
    \A s \in DOMAIN fsm.transitions :
      /\ EntrySymbols(fsm, s) = {fsm.symbols[j] : j \in 1..Len(fsm.symbols)}
      /\ \A j \in 1..Len(fsm.symbols) :
           Cardinality({k \in 1..Len(fsm.transitions[s]) :
                          fsm.transitions[s][k][1] = fsm.symbols[j]}) = 1

\* C6: the keys of a returned FSMData's transitions are exactly the canonical
\* range; a text whose number of distinct row labels differs from states
\* fails with the line-0 error that carries the actual and the expected count.
C6_SourcesAreTheRange ==
  /\ pc = "returned" => DOMAIN fsm.transitions = Range(fsm)
  /\ (pc \in {"returned", "thrown"} /\ Cardinality(RowLabelsOf(text)) # StatesOf(text)) =>
       /\ pc = "thrown"
       /\ parser.err.lineNumber = 0
       /\ parser.err.msg = "Number of transitions must equal number of states"
       /\ parser.err.actual = Cardinality(RowLabelsOf(text))
       /\ parser.err.expected = StatesOf(text)

\* a returned 0-based machine of two states
C6_Witness ==
  /\ pc = "returned"
  /\ fsm.zeroIndexed
  /\ fsm.states = 2
  /\ DOMAIN fsm.transitions = {0, 1}

\* C7: in a returned FSMData every state of the canonical range has exactly
\* symbols.length entries.
C7_RowLengths ==
  pc = "returned" =>
    \A s \in Range(fsm) :
      /\ s \in DOMAIN fsm.transitions
      /\ Len(fsm.transitions[s]) = Len(fsm.symbols)

\* a returned 1-based machine of two states over two symbols
C7_Witness ==
  /\ pc = "returned"
  /\ ~fsm.zeroIndexed
  /\ fsm.states = 2
  /\ Len(fsm.symbols) = 2

\* some state reference of the model lies outside its canonical range
RefOutOfRange(f) ==
  \/ f.startstate \notin Range(f)
  \/ f.acceptstate \notin Range(f)
  \/ \E s \in DOMAIN f.transitions : \E k \in 1..Len(f.transitions[s]) :
       parseInt(f.transitions[s][k][2]) \notin Range(f)

\* C8: in a returned FSMData every target, startstate and acceptstate lie in
\* the canonical range; a text whose normalized references do not fails
\* with a line-0 error.
C8_ReferencesInRange ==
  /\ pc = "returned" => ~RefOutOfRange(fsm)
  /\ (pc \in {"returned", "thrown"} /\ RefOutOfRange(parser.data)) =>
       (pc = "thrown" /\ parser.err.lineNumber = 0)

\* a returned shifted machine: a target and the accept state at states - 1
C8_Witness ==
  /\ pc = "returned"
  /\ fsm.zeroIndexed
  /\ 0 \notin DOMAIN authored.transitions
  /\ fsm.states = 2
  /\ fsm.acceptstate = 1
  /\ fsm.startstate = 0

\* C9: a text with two transition rows of the same label yields no FSMData.
C9_NoDuplicateRows ==
  pc = "returned" => Cardinality(RowLinesOf(text)) = Cardinality(RowLabelsOf(text))

\* C10 as stated: rows labeled 1..N with all targets in 0..N-1 are shifted.
C10_ShiftedWhenTargetsWithin ==
  (/\ pc \in {"validateRules", "returned", "thrown"}
   /\ DOMAIN authored.transitions = 1..authored.states
   /\ targetStates(authored.transitions) \subseteq 0..(authored.states - 1)) =>
    /\ parser.data.zeroIndexed
    /\ DOMAIN parser.data.transitions = 0..(authored.states - 1)
    /\ \A s \in DOMAIN authored.transitions :
         parser.data.transitions[s - 1] = authored.transitions[s]
    /\ parser.data.startstate = authored.startstate - 1
    /\ parser.data.acceptstate = authored.acceptstate - 1

\* the targets span 0..N-1: their minimum is 0 and their maximum N-1
TargetsSpan(data) ==
  /\ targetStates(data.transitions) # {}
  /\ Min(targetStates(data.transitions)) = 0
  /\ Max(targetStates(data.transitions)) = data.states - 1

\* C10, amended: rows labeled 1..N whose targets have minimum 0 and maximum
\* N-1 are shifted: every row label, startstate and acceptstate is
\* decremented by one, the rows keep their entries, zeroIndexed = true.
C10_ShiftedWhenTargetsSpan ==
  (/\ pc \in {"validateRules", "returned", "thrown"}
   /\ DOMAIN authored.transitions = 1..authored.states
   /\ TargetsSpan(authored)) =>
    /\ parser.data.zeroIndexed
    /\ DOMAIN parser.data.transitions = 0..(authored.states - 1)
    /\ \A s \in DOMAIN authored.transitions :
         parser.data.transitions[s - 1] = authored.transitions[s]
    /\ parser.data.startstate = authored.startstate - 1
    /\ parser.data.acceptstate = authored.acceptstate - 1

\* a shifted two-state definition, returned with start 1 -> 0 and accept 2 -> 1
C10_Witness ==
  /\ pc = "returned"
  /\ DOMAIN authored.transitions = {1, 2}
  /\ TargetsSpan(authored)
  /\ authored.startstate = 1
  /\ authored.acceptstate = 2
  /\ fsm.acceptstate = 1

(***************************************************************************)
(* Properties of the normalizer                                            *)
(***************************************************************************)
\* the shifted condition, read off the authored data: no row labeled 0,
\* states > 0, labels from 1 to states, targets from 0 to states - 1
ShiftedCondition(data) ==
  /\ DOMAIN data.transitions # {}
  /\ 0 \notin DOMAIN data.transitions
  /\ data.states > 0
  /\ Min(DOMAIN data.transitions) = 1
  /\ Max(DOMAIN data.transitions) = data.states
  /\ TargetsSpan(data)

\* the data is the authored data, but for zeroIndexed
KeepsAuthored(data) == data = [authored EXCEPT !.zeroIndexed = data.zeroIndexed]

\* C11: outside the shifted case the normalizer rewrites nothing: with a row
\* labeled 0, zeroIndexed is true and row labels, rows, startstate and
\* acceptstate are as authored; with no row labeled 0 and the shifted
\* condition false, zeroIndexed is false and they are as authored.
C11_NoRewriteOutsideShift ==
  pc \in {"validateRules", "returned"} =>
    LET data == IF pc = "returned" THEN fsm ELSE parser.data
    IN /\ 0 \in DOMAIN authored.transitions =>
            (data.zeroIndexed /\ KeepsAuthored(data))
       /\ (0 \notin DOMAIN authored.transitions /\ ~ShiftedCondition(authored)) =>
            (~data.zeroIndexed /\ KeepsAuthored(data))

\* a returned definition with rows 1..2 and targets in 1..2
C11_Witness ==
  /\ pc = "returned"
  /\ DOMAIN authored.transitions = {1, 2}
  /\ targetStates(authored.transitions) = {1, 2}
  /\ ~fsm.zeroIndexed
  /\ fsm.transitions = authored.transitions

(***************************************************************************)
(* Texts with missing, malformed and broken-up declarations                *)
(***************************************************************************)
\* a declaration line whose value the parser's regular expression rejects,
\* as in "states = two"
MalformedLine(kind) ==
  [BlankLine EXCEPT !.kind = kind, !.toks = KeywordToks(kind) \o <<"=">>]

\* a line that starts with no keyword and holds no digit
FragmentLine(toks) ==
  [BlankLine EXCEPT !.kind = "other", !.toks = toks]

\* a keyword of two pieces broken over two lines, as in "accept" / "state = 2"
SplitLines(kind) ==
  <<FragmentLine(<<KeywordToks(kind)[1]>>), FragmentLine(Tail(KeywordToks(kind)) \o <<"=">>)>>

Forms == {"ok", "malformed", "absent", "split"}

\* the ways a declaration is written; only a keyword of two pieces can be split
FormsOf(kind) == IF Len(KeywordToks(kind)) > 1 THEN Forms ELSE Forms \ {"split"}

\* the lines of one declaration of the definition (two states over {0, 1},
\* start 1, accept 2), written in the given form
DeclLines(kind, form) ==
  CASE form = "absent" -> <<>>
    [] form = "split" -> SplitLines(kind)
    [] form = "malformed" /\ kind = "transitions" -> <<TransitionsLine, FragmentLine(<<"on">>)>>
    [] form = "malformed" /\ kind # "transitions" -> <<MalformedLine(kind)>>
    [] form = "ok" /\ kind = "name" -> <<NameLine("fsm")>>
    [] form = "ok" /\ kind = "states" -> <<StatesLine(2)>>
    [] form = "ok" /\ kind = "symbols" -> <<SymbolsLine(<< <<"0">>, <<"1">> >>)>>
    [] form = "ok" /\ kind = "transitions" ->
         <<InlineTransitionsLine(1, << <<(<<"0">>), DigitStr(1)>>, <<(<<"1">>), DigitStr(2)>> >>),
           RowLine(2, << <<(<<"0">>), DigitStr(2)>>, <<(<<"1">>), DigitStr(1)>> >>),
           BlankLine>>
    [] form = "ok" /\ kind = "startstate" -> <<StartStateLine(1)>>
    [] form = "ok" /\ kind = "acceptstate" -> <<AcceptStateLine(2)>>

\* the declarations in the order of REQUIRED_FIELDS, each in its form
RECURSIVE FormedText(_, _)
FormedText(forms, k) ==
  IF k > Len(REQUIRED_FIELDS) THEN <<>>
  ELSE DeclLines(REQUIRED_FIELDS[k], forms[REQUIRED_FIELDS[k]]) \o FormedText(forms, k + 1)

FormedTexts ==
  {FormedText(forms, 1) :
     forms \in {f \in [BlockEnders \cup {"transitions"} -> Forms] :
                  \A kind \in DOMAIN f : f[kind] \in FormsOf(kind)}}

InitFormed ==
  /\ text \in FormedTexts
  /\ pc = "checkRequiredFields"
  /\ parser = NewParser
  /\ authored = NewParser.data
  /\ fsm = NewParser.data
  /\ RunIdle
  /\ SingleCall

NextParse ==
  \/ CheckRequiredFields
  \/ ParseFields
  \/ DetectAndNormalizeIndexingScheme
  \/ ValidateRules

SpecFormed == InitFormed /\ [][NextParse]_vars

(***************************************************************************)
(* Properties of the keyword pre-check                                     *)
(***************************************************************************)
\* the keywords the text does not contain: a keyword holds no line break, so
\* the text contains it exactly when one of its lines does
AbsentKeywords(lines) ==
  LET absent(field) == ~\E n \in 1..Len(lines) : includes(lines[n].toks, KeywordToks(field))
  IN SelectSeq(REQUIRED_FIELDS, absent)

\* C12: a text that does not contain all six keywords fails with line 0 and
\* a message naming exactly the absent keywords, before any line is parsed.
C12_MissingKeywordPreCheck ==
  AbsentKeywords(text) # <<>> =>
    /\ pc \in {"checkRequiredFields", "thrown"}
    /\ pc = "thrown" =>
         /\ parser.err.lineNumber = 0
         /\ parser.err.msg = "Missing required fields"
         /\ parser.err.fields = AbsentKeywords(text)
         /\ parser.currentLine = 0
         /\ parser.fieldsFound = {}

(***************************************************************************)
(* parseTransitionLine on the characters of a row: the regular expressions *)
(* of the two dialects.  A row's text is the sequence of its characters.   *)
(***************************************************************************)
DigitChars == {Digits[d] : d \in 1..10}
Quotes == {"'", "\""}
Spaces == {" "}
Letters ==
  {"a", "b", "c", "d", "e", "f", "g", "h", "i", "j", "k", "l", "m",
   "n", "o", "p", "q", "r", "s", "t", "u", "v", "w", "x", "y", "z"}
\* \w
WordChars == Letters \cup DigitChars \cup {"_"}

\* the character at index p (from 1), "" past the end
At(s, p) == IF p \in 1..Len(s) THEN s[p] ELSE ""

\* the end of the longest run of characters of S that starts at p:
\* what a greedy S* leaves unread
skip(s, p, S) ==
  IF p > Len(s) THEN p
  ELSE CHOOSE q \in p..(Len(s) + 1) :
         /\ \A j \in p..(q - 1) : s[j] \in S
         /\ At(s, q) \notin S

\* s from index p on
From(s, p) == SubSeq(s, p, Len(s))

\* line.match(/(\d+)[:\.]?\s*(.+)/): the leftmost match, each quantifier
\* as greedy as the final (.+) allows, which needs one character
matchRow(s) ==
  LET digitsAt == {p \in 1..Len(s) : s[p] \in DigitChars}
  IN IF digitsAt = {} \/ Min(digitsAt) = Len(s)
     THEN [ok |-> FALSE, label |-> <<>>, rest |-> <<>>]
     ELSE LET p == Min(digitsAt)
              q == skip(s, p, DigitChars)
              q1 == IF At(s, q) \in {":", "."} THEN q + 1 ELSE q
              q2 == skip(s, q1, Spaces)
          IN IF q2 <= Len(s)
             THEN [ok |-> TRUE, label |-> SubSeq(s, p, q - 1), rest |-> From(s, q2)]
             ELSE IF q2 > q1 \/ q1 > q
             THEN [ok |-> TRUE, label |-> SubSeq(s, p, q - 1), rest |-> From(s, Len(s))]
             ELSE [ok |-> TRUE, label |-> SubSeq(s, p, Len(s) - 1), rest |-> From(s, Len(s))]

\* one match of /on\s*['"](\d+)['"]\.?\s*m\w*\s*['"](\d+)['"]\.?/gi that
\* starts at index p: the two groups and the index after the match
matchNewFormatAt(t, p) ==
  LET a == skip(t, p + 2, Spaces)
      b == skip(t, a + 1, DigitChars)
      c == IF At(t, b + 1) = "." THEN b + 2 ELSE b + 1
      m == skip(t, c, Spaces)
      w == skip(t, m + 1, WordChars)
      e == skip(t, w, Spaces)
      f == skip(t, e + 1, DigitChars)
  IN [ok |-> /\ At(t, p) \in {"o", "O"}
             /\ At(t, p + 1) \in {"n", "N"}
             /\ At(t, a) \in Quotes
             /\ b > a + 1
             /\ At(t, b) \in Quotes
             /\ At(t, m) \in {"m", "M"}
             /\ At(t, e) \in Quotes
             /\ f > e + 1
             /\ At(t, f) \in Quotes,
      symbol |-> SubSeq(t, a + 1, b - 1),
      target |-> SubSeq(t, e + 1, f - 1),
      lastIndex |-> IF At(t, f + 1) = "." THEN f + 2 ELSE f + 1]

\* while ((newFormatMatch = newFormatPattern.exec(transitionsStr)) !== null)
RECURSIVE newFormatMatches(_, _)
newFormatMatches(t, lastIndex) ==
  LET starts == {p \in lastIndex..Len(t) : matchNewFormatAt(t, p).ok}
  IN IF starts = {} THEN <<>>
     ELSE LET newFormatMatch == matchNewFormatAt(t, Min(starts))
          IN <<(<<newFormatMatch.symbol, newFormatMatch.target>>)>>
             \o newFormatMatches(t, newFormatMatch.lastIndex)

\* s.split(ch)
RECURSIVE split(_, _)
split(s, ch) ==
  LET hits == {p \in 1..Len(s) : s[p] = ch}
  IN IF hits = {} THEN <<s>>
     ELSE <<SubSeq(s, 1, Min(hits) - 1)>> \o split(From(s, Min(hits) + 1), ch)

\* s.trim()
trim(s) ==
  LET solid == {p \in 1..Len(s) : s[p] \notin Spaces}
  IN IF solid = {} THEN <<>> ELSE SubSeq(s, Min(solid), Max(solid))

\* a test for one digit only
oneDigit(s) == Len(s) = 1 /\ s[1] \in DigitChars

\* /^\d+$/.test(s)
allDigits(s) == Len(s) > 0 /\ \A p \in 1..Len(s) : s[p] \in DigitChars

\* the old format, for (const trans of transitionsStr.split(',')), from token k on
RECURSIVE oldFormatMatches(_, _)
oldFormatMatches(tokens, k) ==
  IF k > Len(tokens) THEN <<>>
  ELSE LET trimmed == trim(tokens[k])
           parts == split(trimmed, ".")
       IN (IF Len(parts) = 2 /\ allDigits(trim(parts[1])) /\ allDigits(trim(parts[2]))
           THEN <<(<<trim(parts[1]), trim(parts[2])>>)>>
           ELSE <<>>)
          \o oldFormatMatches(tokens, k + 1)

\* the row line a text of these characters is to the parser: what the
\* regular expressions of parseTransitionLine extract from it
RowLineOfChars(chars) ==
  LET match == matchRow(chars)
  IN [BlankLine EXCEPT !.kind = "row",
                       !.rowOk = match.ok,
                       !.label = match.label,
                       !.nl = newFormatMatches(match.rest, 1),
                       !.dotted = oldFormatMatches(split(match.rest, ","), 1),
                       !.toks = chars]

\* firstLine.match(/transitions\s*=\s*(\d+[:\.]?\s*.+)/i) on "transitions = " + chars
InlineTransitionsLineOfChars(chars) ==
  IF Len(chars) >= 2 /\ chars[1] \in DigitChars
  THEN [RowLineOfChars(chars) EXCEPT !.kind = "transitions", !.inline = TRUE,
                                     !.toks = <<"transitions", "=">> \o chars]
  ELSE TransitionsLine

(***************************************************************************)
(* A transitions block written in the two dialects                         *)
(***************************************************************************)
\* on '<symbol>' Move '<target>'
WriteNewFormat(entry) ==
  <<"o", "n", " ", "'">> \o entry[1] \o <<"'", " ", "M", "o", "v", "e", " ", "'">>
  \o entry[2] \o <<"'">>

\* <symbol>.<target>
WriteOldFormat(entry) == entry[1] \o <<".">> \o entry[2]

\* the entries of a row from entry k on, separated by ", "
RECURSIVE WriteEntries(_, _, _)
WriteEntries(dialect, entries, k) ==
  (IF dialect = "new" THEN WriteNewFormat(entries[k]) ELSE WriteOldFormat(entries[k]))
  \o (IF k = Len(entries) THEN <<>> ELSE <<",", " ">> \o WriteEntries(dialect, entries, k + 1))

\* a row: the label, ":" or ".", a space and the entries
WriteRow(dialect, label, sep, entries) ==
  DigitStr(label) \o <<sep, " ">> \o WriteEntries(dialect, entries, 1)

\* the text of a definition whose rows are labeled from base on, in a dialect
DialectText(dialect, sep, base, rows, start, accept) ==
  <<NameLine("fsm"), StatesLine(Len(rows)), SymbolsLine(<< <<"0">>, <<"1">> >>),
    InlineTransitionsLineOfChars(WriteRow(dialect, base, sep, rows[1]))>>
  \o [k \in 1..(Len(rows) - 1) |-> RowLineOfChars(WriteRow(dialect, base + k, sep, rows[k + 1]))]
  \o <<BlankLine, StartStateLine(start), AcceptStateLine(accept)>>

\* rows of one entry and of two, over a symbol of one digit and a symbol of
\* two digits, with every target
EntryLists ==
  {<<(<<sym, DigitStr(t)>>)>> : sym \in {<<"0">>, <<"1", "0">>}, t \in 0..MaxStates}
  \cup {<<(<<(<<"0">>), DigitStr(t[1])>>), (<<(<<"1", "0">>), DigitStr(t[2])>>)>> :
          t \in [1..2 -> 0..MaxStates]}

\* the parser of the call before, used again
sameFSMParser(previous) == [previous EXCEPT !.err = NoErr]

\* a later call of parseFSMFile: new FSMParser()
newFSMParser(previous) == NewParser

\* parseFSMFile(content), called again when the call before it has ended
ParseFSMFile ==
  /\ pc \in {"returned", "thrown"}
  /\ pending # <<>>
  /\ calls' = Append(calls, [text |-> text, outcome |-> pc, data |-> parser.data, err |-> parser.err])
  /\ text' = Head(pending)
  /\ pending' = Tail(pending)
  /\ parser' = newFSMParser(parser)
  /\ authored' = NewParser.data
  /\ pc' = "checkRequiredFields"
  /\ UNCHANGED <<fsm, runVars, runs, genVars, otherVars>>

\* the same transition function parsed twice: written in the new format,
\* then in the old format
InitDialects ==
  /\ \E sep \in {":", "."}, base \in 0..1, start \in 0..1, accept \in 1..MaxStates :
       \E rows \in UNION {[1..n -> EntryLists] : n \in 1..MaxStates} :
         /\ text = DialectText("new", sep, base, rows, start, accept)
         /\ pending = <<DialectText("old", sep, base, rows, start, accept)>>
  /\ calls = <<>>
  /\ runs = <<>>
  /\ chunks = <<>>
  /\ steps = <<>>
  /\ OthersIdle
  /\ pc = "checkRequiredFields"
  /\ parser = NewParser
  /\ authored = NewParser.data
  /\ fsm = NewParser.data
  /\ RunIdle

NextCalls ==
  \/ NextParse
  \/ ParseFSMFile

SpecDialects == InitDialects /\ [][NextCalls]_vars

(***************************************************************************)
(* Properties of the two dialects                                          *)
(***************************************************************************)
\* C13: a transitions block in natural-language form and the block in
\* legacy dotted form with the same entries in the same order parse to the
\* same transitions (and zeroIndexed, startstate, acceptstate), and a block
\* rejected in one form is rejected in the other with the same error.
C13_DialectEquivalence ==
  (calls # <<>> /\ pc \in {"returned", "thrown"}) =>
    /\ pc = calls[1].outcome
    /\ parser.data = calls[1].data
    /\ parser.err = calls[1].err
    /\ pc = "returned" => fsm = calls[1].data

\* a two-state definition returned from both forms, a two-digit symbol in it
C13_Witness ==
  /\ calls # <<>>
  /\ pc = "returned"
  /\ calls[1].outcome = "returned"
  /\ \E n \in 1..Len(text) : text[n].rowOk /\ text[n].nl = <<>> /\ Len(text[n].dotted) = 2
  /\ \E n \in 1..Len(calls[1].text) : Len(calls[1].text[n].nl) = 2
  /\ DOMAIN fsm.transitions = {0, 1}
  /\ fsm.transitions[1][2] = <<(<<"1", "0">>), (<<"1">>)>>

(***************************************************************************)
(* generateFSMSteps(fsmData, input)                                        *)
(***************************************************************************)
\* null in a string field (no chunk is the empty string)
nullString == <<>>

\* a chunk size that ignores the symbols
chunkSizeOne(fsmData) == 1

\* const chunkSize = fsmData.symbols[0]?.length || 1
chunkSize(fsmData) ==
  IF Len(fsmData.symbols) = 0 THEN 1
  ELSE IF Len(fsmData.symbols[1]) = 0 THEN 1
  ELSE Len(fsmData.symbols[1])

\* input.slice(i, j), indices from 0
slice(s, i, j) == SubSeq(s, i + 1, Min({j, Len(s)}))

\* for (let i = 0; i < input.length; i += chunkSize) chunks.push(...), from i on
RECURSIVE chunkLoop(_, _, _)
chunkLoop(in, i, size) ==
  IF i < Len(in)
  THEN <<slice(in, i, i + size)>> \o chunkLoop(in, i + size, size)
  ELSE <<>>

\* an anchor that always shows state 1
anchorResultsOfStateOne(fsmData, symbol, upcomingInput) ==
  <<[currentState |-> 1,
     nextState |-> getTransition(fsmData, 1, symbol),
     upcomingInput |-> upcomingInput]>>

\* the stateResults of the anchor position
anchorResults(fsmData, symbol, upcomingInput) ==
  <<[currentState |-> fsmData.startstate,
     nextState |-> getTransition(fsmData, fsmData.startstate, symbol),
     upcomingInput |-> upcomingInput]>>

\* a sweep over the canonical range of the model
sweepResultsOfRange(fsmData, symbol, upcomingInput) ==
  LET first == IF fsmData.zeroIndexed THEN 0 ELSE 1
  IN [n \in 1..fsmData.states |->
        [currentState |-> first + n - 1,
         nextState |-> getTransition(fsmData, first + n - 1, symbol),
         upcomingInput |-> upcomingInput]]

\* the stateResults of a later position:
\* for (let stateNum = 1; stateNum <= fsmData.states; stateNum++)
sweepResults(fsmData, symbol, upcomingInput) ==
  [stateNum \in 1..fsmData.states |->
     [currentState |-> stateNum,
      nextState |-> getTransition(fsmData, stateNum, symbol),
      upcomingInput |-> upcomingInput]]

\* the StepResult pushed for a position
stepResult(fsmData, allChunks, position) ==
  LET symbol == allChunks[position + 1]
      upcomingInput == IF position < Len(allChunks) - 1 THEN allChunks[position + 2] ELSE nullString
      isAnchor == (position = 0)
  IN [position |-> position,
      symbol |-> symbol,
      isAnchor |-> isAnchor,
      states |-> IF isAnchor THEN anchorResults(fsmData, symbol, upcomingInput)
                 ELSE sweepResults(fsmData, symbol, upcomingInput)]

\* the call, up to the first test of the position loop; no chunk: return { steps: [] }
GenerateFSMSteps(in) ==
  /\ pc \in {"returned", "done"}
  /\ input' = in
  /\ chunks' = chunkLoop(in, 0, chunkSize(fsm))
  /\ steps' = <<>>
  /\ pc' = IF Len(chunks') = 0 THEN "generated" ELSE "position"
  /\ UNCHANGED <<text, parser, authored, fsm, transitionMap, currentState, path, pos, result, callVars>>

\* one iteration of for (let position = 0; position < chunks.length; position++)
GenerateStep ==
  /\ pc = "position"
  /\ Len(steps) < Len(chunks)
  /\ steps' = Append(steps, stepResult(fsm, chunks, Len(steps)))
  /\ UNCHANGED <<text, pc, parser, authored, fsm, runVars, callVars, chunks>>

\* return { steps }
GenerateReturn ==
  /\ pc = "position"
  /\ Len(steps) = Len(chunks)
  /\ pc' = "generated"
  /\ UNCHANGED <<text, parser, authored, fsm, runVars, callVars, genVars>>

\* symbols: none, one empty symbol, symbols of one character, of two
StepSymbols ==
  {<<>>, <<(<<>>)>>, <<(<<"0">>), (<<"1">>)>>, <<(<<"0", "1">>), (<<"1", "0">>)>>}

\* a row with the targets t gives its symbols, from symbol j on; null: no entry
RECURSIVE StepRow(_, _, _)
StepRow(symbols, t, j) ==
  IF j > Len(symbols) THEN <<>>
  ELSE (IF t[j] = null THEN <<>> ELSE <<(<<symbols[j], DigitStr(t[j])>>)>>)
       \o StepRow(symbols, t, j + 1)

StepRows(symbols) ==
  {StepRow(symbols, t, 1) : t \in [1..Len(symbols) -> (1..MaxStates) \cup {null}]}

\* any FSMData, 0-based or 1-based, with and without an entry for a symbol
StepFSMDatas ==
  UNION {UNION {
    {[name |-> "fsm", states |-> n, symbols |-> symbols, transitions |-> tr,
      startstate |-> start, acceptstate |-> 1, zeroIndexed |-> zeroIndexed] :
       tr \in [(IF zeroIndexed THEN 0..(n - 1) ELSE 1..n) -> StepRows(symbols)],
       start \in 0..MaxStates} :
    symbols \in StepSymbols, zeroIndexed \in BOOLEAN} : n \in 1..MaxStates}

InitSteps ==
  /\ text = <<>>
  /\ pc = "returned"
  /\ parser = NewParser
  /\ authored = NewParser.data
  /\ fsm \in StepFSMDatas
  /\ RunIdle
  /\ SingleCall

NextSteps ==
  \/ \E in \in Inputs : pc = "returned" /\ GenerateFSMSteps(in)
  \/ GenerateStep
  \/ GenerateReturn

SpecSteps == InitSteps /\ [][NextSteps]_vars

(***************************************************************************)
(* Properties of generateFSMSteps                                          *)
(***************************************************************************)
\* the chunk size as documented: the length of symbols[0], 1 without it
K(f) == IF f.symbols = <<>> \/ f.symbols[1] = <<>> THEN 1 ELSE Len(f.symbols[1])

\* the sequences of seq end to end, from index i on
RECURSIVE Concat(_, _)
Concat(seq, i) == IF i > Len(seq) THEN <<>> ELSE seq[i] \o Concat(seq, i + 1)

\* the i-th chunk (from 0) of the input cut into pieces of size k
ChunkAt(in, k, i) == SubSeq(in, i * k + 1, Min({i * k + k, Len(in)}))

\* the next state the model's rows give for a state and a chunk, or null
NextStateIs(f, state, symbol, nextState) ==
  IF HasEntry(f, state, symbol)
  THEN IsTarget(f, state, symbol, nextState)
  ELSE nextState = null

\* C14: generateFSMSteps returns ceil(length(input) / k) steps, k the length
\* of symbols[0] (1 without it, so k >= 1); step i has position i and symbol
\* input[i*k .. i*k+k); only the last symbol may be shorter than k; the
\* symbols end to end are the input; the empty input yields no steps.
C14_Chunking ==
  pc = "generated" =>
    LET k == K(fsm)
        n == (Len(input) + k - 1) \div k
    IN /\ k >= 1
       /\ Len(steps) = n
       /\ \A i \in 0..(n - 1) :
            /\ steps[i + 1].position = i
            /\ steps[i + 1].symbol = ChunkAt(input, k, i)
            /\ i < n - 1 => Len(steps[i + 1].symbol) = k
            /\ Len(steps[i + 1].symbol) \in 1..k
       /\ Concat([i \in 1..n |-> steps[i].symbol], 1) = input
       /\ input = <<>> => steps = <<>>

\* an input of three characters cut into a chunk of two and a chunk of one
C14_Witness ==
  /\ pc = "generated"
  /\ Len(input) = 3
  /\ Len(steps) = 2
  /\ Len(steps[1].symbol) = 2
  /\ Len(steps[2].symbol) = 1

\* C15: isAnchor is true exactly for the step at position 0; that step has
\* one entry, with currentState = startstate and nextState = the start
\* state's target under the first chunk, or null without an entry for it.
C15_AnchorStep ==
  \A i \in 1..Len(steps) :
    /\ steps[i].isAnchor <=> (steps[i].position = 0)
    /\ steps[i].isAnchor <=> (i = 1)
    /\ i = 1 =>
         /\ Len(steps[1].states) = 1
         /\ steps[1].states[1].currentState = fsm.startstate
         /\ NextStateIs(fsm, fsm.startstate, ChunkAt(input, K(fsm), 0), steps[1].states[1].nextState)

\* an anchor step of a start state other than 1, with a target, and a later step
C15_Witness ==
  /\ pc = "generated"
  /\ Len(steps) >= 2
  /\ fsm.startstate = 2
  /\ steps[1].states[1].nextState = 1

\* C16: every step at a position > 0 has fsm.states entries with
\* currentState 1, 2, ..., fsm.states in this order, whatever zeroIndexed
\* is; an entry's nextState is that state's target under the step's chunk,
\* or null; its upcomingInput is the next chunk, or null at the last position.
C16_SweepSteps ==
  pc = "generated" =>
    \A i \in 2..Len(steps) :
      /\ Len(steps[i].states) = fsm.states
      /\ \A j \in 1..Len(steps[i].states) :
           /\ steps[i].states[j].currentState = j
           /\ NextStateIs(fsm, j, ChunkAt(input, K(fsm), i - 1), steps[i].states[j].nextState)
           /\ steps[i].states[j].upcomingInput =
                (IF i < Len(steps) THEN ChunkAt(input, K(fsm), i) ELSE nullString)

\* a 0-based model of two states swept over states 1 and 2: a target for
\* state 1, null for state 2, a next chunk at position 1 and none at position 2
C16_Witness ==
  /\ pc = "generated"
  /\ fsm.zeroIndexed
  /\ fsm.states = 2
  /\ Len(steps) = 3
  /\ steps[2].states[1].nextState # null
  /\ steps[2].states[2].nextState = null
  /\ steps[2].states[1].upcomingInput # nullString
  /\ steps[3].states[1].upcomingInput = nullString

(***************************************************************************)
(* parse, runFSM and generateFSMSteps on one definition and one input      *)
(***************************************************************************)
\* the definitions whose rows have one entry for each of the two symbols
EnumTexts ==
  {Text(n, syms, rows, start, accept) :
     n \in 1..MaxStates, syms \in DeclaredSymbols,
     rows \in UNION {[1..m -> [label : 0..MaxStates, entries : EntriesOf(<<(<<"0">>), (<<"1">>)>>)]] :
                       m \in 1..MaxStates},
     start \in 0..MaxStates, accept \in 0..MaxStates}

InitEnum ==
  /\ text \in EnumTexts
  /\ pc = "checkRequiredFields"
  /\ parser = NewParser
  /\ authored = NewParser.data
  /\ fsm = NewParser.data
  /\ RunIdle
  /\ SingleCall

NextEnum ==
  \/ NextParse
  \/ \E in \in Inputs : RunFSM(in)
  \/ RunStep
  \/ RunReturn
  \/ pc = "done" /\ GenerateFSMSteps(input)
  \/ GenerateStep
  \/ GenerateReturn

SpecEnum == InitEnum /\ [][NextEnum]_vars

\* C17: each step k that runFSM took, from path[k].state on character k to
\* path[k+1].state, is an entry of step k of generateFSMSteps, with that
\* currentState and that nextState.
C17_EnumeratorCoversRun ==
  pc = "generated" =>
    \A k \in 1..(Len(path) - 1) :
      /\ k <= Len(steps)
      /\ steps[k].symbol = path[k + 1].symbol
      /\ \E j \in 1..Len(steps[k].states) :
           /\ steps[k].states[j].currentState = path[k].state
           /\ steps[k].states[j].nextState = path[k + 1].state

(***************************************************************************)
(* runFSM called twice with the same arguments                             *)
(***************************************************************************)
\* a path that goes on from the path of the call before
pathKept(previous, fsmData) == previous

\* const path = [{ state: fsm.startstate }]: a new array in every call
pathOfCall(previous, fsmData) == <<[state |-> fsmData.startstate, symbol |-> <<>>]>>

\* runFSM(fsm, input) once more, with the arguments of the call that has ended
RunFSMAgain ==
  /\ pc = "done"
  /\ runs = <<>>
  /\ runs' = <<[fsm |-> fsm, input |-> input, result |-> result]>>
  /\ transitionMap' = buildTransitionMap(<<>>, fsm.transitions, DOMAIN fsm.transitions)
  /\ currentState' = fsm.startstate
  /\ path' = pathOfCall(path, fsm)
  /\ pos' = 0
  /\ result' = NoResult
  /\ pc' = "loop"
  /\ UNCHANGED <<text, parser, authored, fsm, input, pending, calls, genVars, otherVars>>

NextRuns ==
  \/ NextRun
  \/ RunFSMAgain

SpecRuns == InitRun /\ [][NextRuns]_vars

MaxCalls == 2      \* most parseFSMFile calls in a row

\* texts that return (1-based, 0-based, shifted), that fail a rule, that lack
\* a keyword and that have a malformed line
CallTexts ==
  {Text(1, syms, <<[label |-> label, entries |-> entries]>>, start, start) :
     syms \in DeclaredSymbols, label \in 0..1,
     entries \in {<<(<<(<<"0">>), DigitStr(t)>>), (<<(<<"1">>), DigitStr(t)>>)>> : t \in 0..1},
     start \in 0..1}
  \cup
  {FormedText(forms, 1) :
     forms \in {f \in [BlockEnders \cup {"transitions"} -> Forms] :
                  /\ \A kind \in DOMAIN f \ {"states", "acceptstate"} : f[kind] = "ok"
                  /\ f["states"] \in {"ok", "malformed", "absent"}
                  /\ f["acceptstate"] \in {"ok", "malformed", "absent"}}}

InitCalls ==
  /\ text \in CallTexts
  /\ pending \in UNION {[1..n -> CallTexts] : n \in 1..(MaxCalls - 1)}
  /\ calls = <<>>
  /\ runs = <<>>
  /\ chunks = <<>>
  /\ steps = <<>>
  /\ OthersIdle
  /\ pc = "checkRequiredFields"
  /\ parser = NewParser
  /\ authored = NewParser.data
  /\ fsm = NewParser.data
  /\ RunIdle

SpecCalls == InitCalls /\ [][NextCalls]_vars

\* the outcome recorded for a call is the outcome of parse on the call's
\* text alone, from a parser just constructed
OutcomeOfTextAlone(call) ==
  LET alone == parse(NewParser, call.text)
  IN /\ call.outcome = (IF alone.err = NoErr THEN "returned" ELSE "thrown")
     /\ call.data = alone.data
     /\ call.err = alone.err

\* C19: every call of parseFSMFile ends the way its own text alone
\* determines, whatever was parsed before it, and what an earlier call
\* returned stays what it was while later calls run.
C19_FreshResultPerCall ==
  /\ \A k \in 1..Len(calls) : OutcomeOfTextAlone(calls[k])
  /\ pc \in {"returned", "thrown"} =>
       OutcomeOfTextAlone([text |-> text, outcome |-> pc, data |-> parser.data, err |-> parser.err])
  /\ pc = "returned" => fsm = parser.data

\* a second call that returned, after a first call that returned another FSMData
C19_Witness ==
  /\ Len(calls) = 1
  /\ calls[1].outcome = "returned"
  /\ pc = "returned"
  /\ fsm.zeroIndexed
  /\ ~calls[1].data.zeroIndexed
  /\ fsm.transitions # calls[1].data.transitions

\* C20: in the shifted case (no row labeled 0, states > 0, labels from 1 to
\* states, targets from 0 to states - 1) every row label is decremented by
\* one and keeps its transition list, startstate and acceptstate are
\* decremented by one, no target changes, and zeroIndexed is true.
C20_ShiftedCase ==
  (pc \in {"validateRules", "returned"} /\ ShiftedCondition(authored)) =>
    LET data == IF pc = "returned" THEN fsm ELSE parser.data
    IN /\ DOMAIN data.transitions = {from - 1 : from \in DOMAIN authored.transitions}
       /\ \A from \in DOMAIN authored.transitions :
            data.transitions[from - 1] = authored.transitions[from]
       /\ data.startstate = authored.startstate - 1
       /\ data.acceptstate = authored.acceptstate - 1
       /\ targetStates(data.transitions) = targetStates(authored.transitions)
       /\ data.zeroIndexed
       /\ data.name = authored.name
       /\ data.states = authored.states
       /\ data.symbols = authored.symbols

\* a shifted one-state definition: row 1 became row 0, its targets still 0
C20_Witness ==
  /\ pc = "returned"
  /\ authored.states = 1
  /\ DOMAIN authored.transitions = {1}
  /\ authored.startstate = 1
  /\ DOMAIN fsm.transitions = {0}
  /\ targetStates(fsm.transitions) = {0}
  /\ fsm.startstate = 0
  /\ fsm.zeroIndexed

(***************************************************************************)
(* Further properties of the normalizer and of the order of the phases     *)
(***************************************************************************)
\* C21: the normalizer applied to its own output changes none of
\* transitions, startstate, acceptstate and zeroIndexed.
C21_NormalizationIdempotent ==
  pc = "validateRules" =>
    LET again == detectAndNormalizeIndexingScheme(parser.data)
    IN /\ again.transitions = parser.data.transitions
       /\ again.startstate = parser.data.startstate
       /\ again.acceptstate = parser.data.acceptstate
       /\ again.zeroIndexed = parser.data.zeroIndexed
       /\ again.states = parser.data.states

\* the output of a shift of two rows, fed back
C21_Witness ==
  /\ pc = "validateRules"
  /\ ShiftedCondition(authored)
  /\ DOMAIN authored.transitions = {1, 2}
  /\ DOMAIN parser.data.transitions = {0, 1}
  /\ parser.data.zeroIndexed

\* C22: within one parse call the phases run in the order pre-check, line
\* parsing, normalization, validation; the normalizer runs once, after the
\* last line has been visited, on the data the lines gave, and validation
\* starts right after it on its output; an error ends the call.
C22_PhaseOrder ==
  [][/\ pc = "checkRequiredFields" => pc' \in {"parseFields", "thrown"}
     /\ pc = "parseFields" => pc' \in {"normalize", "thrown"}
     /\ pc = "normalize" => pc' = "validateRules"
     /\ pc = "validateRules" => pc' \in {"returned", "thrown"}
     /\ pc = "thrown" => pc' = "thrown"
     /\ pc' = "normalize" =>
          /\ parser'.currentLine = Len(text)
          /\ authored' = parser'.data
     /\ pc' = "validateRules" =>
          /\ pc = "normalize"
          /\ parser'.data = detectAndNormalizeIndexingScheme(authored)
     /\ pc' = "returned" =>
          /\ pc = "validateRules"
          /\ fsm' = detectAndNormalizeIndexingScheme(authored)
          /\ validateRules(parser).err = NoErr
    ]_vars

\* a definition returned because validation saw the shifted values: its
\* authored start state 2 is state 1 of the range 0..1
C22_Witness ==
  /\ pc = "returned"
  /\ ShiftedCondition(authored)
  /\ authored.startstate = 2
  /\ fsm.startstate = 1
  /\ fsm.states = 2

(***************************************************************************)
(* C23: parseFields and parseTransitions line by line                      *)
(***************************************************************************)
\* one iteration of the while loop of parseFields
ParseFieldsIteration ==
  /\ pc = "parseFields"
  /\ idx < Len(text)
  /\ LET line == text[idx + 1]
         s1 == [parser EXCEPT !.currentLine = idx + 1]
         s2 == CASE line.kind = "name" -> parseName(s1, line)
                 [] line.kind = "states" -> parseStates(s1, line)
                 [] line.kind = "symbols" -> parseSymbols(s1, line)
                 [] line.kind = "transitions" ->
                      \* parseTransitions up to its while loop
                      LET s3 == [s1 EXCEPT !.fieldsFound = @ \cup {"transitions"}]
                      IN IF line.inline THEN parseTransitionLine(s3, line) ELSE s3
                 [] line.kind = "startstate" -> parseStartState(s1, line)
                 [] line.kind = "acceptstate" -> parseAcceptState(s1, line)
                 [] OTHER -> s1
     IN /\ parser' = s2
        /\ visits' = Append(visits, [by |-> "parseFields", line |-> idx + 1])
        /\ pc' = IF s2.err # NoErr THEN "thrown"
                 ELSE IF line.kind = "transitions" THEN "parseTransitions"
                 ELSE "parseFields"
        /\ idx' = IF s2.err # NoErr THEN idx ELSE idx + 1
  /\ UNCHANGED <<text, authored, fsm, runVars, pending, calls, runs, genVars, pageVars>>

\* one iteration of the while loop of parseTransitions; at a block ender it
\* returns i - 1 and parseFields goes on with i + 1 of that
ParseTransitionsIteration ==
  /\ pc = "parseTransitions"
  /\ idx < Len(text)
  /\ LET line == text[idx + 1]
         s1 == [parser EXCEPT !.currentLine = idx + 1]
     IN /\ visits' = Append(visits, [by |-> "parseTransitions", line |-> idx + 1])
        /\ IF line.kind = "blank"
           THEN /\ parser' = s1
                /\ idx' = idx + 1
                /\ pc' = "parseTransitions"
           ELSE IF line.kind \in BlockEnders
           THEN /\ parser' = s1
                /\ idx' = (idx - 1) + 1
                /\ pc' = "parseFields"
           ELSE /\ parser' = parseTransitionLine(s1, line)
                /\ idx' = IF parser'.err # NoErr THEN idx ELSE idx + 1
                /\ pc' = IF parser'.err # NoErr THEN "thrown" ELSE "parseTransitions"
  /\ UNCHANGED <<text, authored, fsm, runVars, pending, calls, runs, genVars, pageVars>>

\* parseTransitions at the end of the lines: return i, and parseFields adds one
ParseTransitionsAtEnd ==
  /\ pc = "parseTransitions"
  /\ ~(idx < Len(text))
  /\ idx' = idx + 1
  /\ pc' = "parseFields"
  /\ UNCHANGED <<text, parser, authored, fsm, runVars, pending, calls, runs, genVars, visits, pageVars>>

\* parseFields leaves its loop
ParseFieldsAtEnd ==
  /\ pc = "parseFields"
  /\ ~(idx < Len(text))
  /\ authored' = parser.data
  /\ pc' = "normalize"
  /\ UNCHANGED <<text, parser, fsm, runVars, callVars, genVars>>

\* the lines a block may hold: blank lines, rows, and lines that begin with
\* the keyword transitions again
BlockBodyLines ==
  {BlankLine,
   RowLine(1, << << <<"0">>, <<"1">> >>, << <<"1">>, <<"2">> >> >>),
   RowLine(2, << << <<"0">>, <<"2">> >>, << <<"1">>, <<"1">> >> >>),
   TransitionsLine,
   InlineTransitionsLine(2, << << <<"0">>, <<"1">> >>, << <<"1">>, <<"2">> >> >>)}

MaxBlockLines == 2

BlockBodies == UNION {[1..n -> BlockBodyLines] : n \in 0..MaxBlockLines}

\* the five other declarations in the order of the fixture
Declarations ==
  <<NameLine("fsm"), StatesLine(2), SymbolsLine(<< <<"0">>, <<"1">> >>),
    StartStateLine(1), AcceptStateLine(2)>>

\* the declarations in every rotation of that order, so that each of them
\* comes first after a block in some text
RotatedDeclarations(r) == [k \in 1..5 |-> Declarations[((k - 1 + r) % 5) + 1]]

\* a text with before declarations ahead of the block and the others after
\* it (none: the block runs to the end of the input); the first row on the
\* keyword line or not; optionally a blank line after the line that ends the
\* block, and a second block after it
BlockText(r, before, inlineRow, body, blankAfter, secondBlock) ==
  LET decls == RotatedDeclarations(r)
      after == SubSeq(decls, before + 1, 5)
  IN SubSeq(decls, 1, before)
     \o <<IF inlineRow
          THEN InlineTransitionsLine(1, << << <<"0">>, <<"2">> >>, << <<"1">>, <<"1">> >> >>)
          ELSE TransitionsLine>>
     \o body
     \o (IF Len(after) = 0 THEN <<>>
         ELSE <<after[1]>>
              \o (IF blankAfter THEN <<BlankLine>> ELSE <<>>)
              \o (IF secondBlock THEN <<TransitionsLine, RowLine(2, << << <<"0">>, <<"1">> >>, << <<"1">>, <<"1">> >> >>)>> ELSE <<>>)
              \o Tail(after))

BlockTexts ==
  {BlockText(r, before, inlineRow, body, blankAfter, secondBlock) :
     r \in 0..4, before \in 0..5, inlineRow \in BOOLEAN, body \in BlockBodies,
     blankAfter \in BOOLEAN, secondBlock \in BOOLEAN}

InitBlocks ==
  /\ text \in BlockTexts
  /\ pc = "checkRequiredFields"
  /\ parser = NewParser
  /\ authored = NewParser.data
  /\ fsm = NewParser.data
  /\ RunIdle
  /\ SingleCall

NextBlocks ==
  \/ CheckRequiredFields
  \/ ParseFieldsIteration
  \/ ParseTransitionsIteration
  \/ ParseTransitionsAtEnd
  \/ ParseFieldsAtEnd
  \/ DetectAndNormalizeIndexingScheme
  \/ ValidateRules

SpecBlocks == InitBlocks /\ [][NextBlocks]_vars

\* the keywords the claim names
EndingKeywords == {"name", "states", "symbols", "startstate", "acceptstate"}

\* line n lies in a transitions block of the text: a line that begins with
\* transitions comes before it and no line from that one up to n begins
\* with an ending keyword
InBlock(lines, n) ==
  \E b \in 1..(n - 1) :
    /\ lines[b].kind = "transitions"
    /\ \A m \in (b + 1)..n : lines[m].kind \notin EndingKeywords

\* line n ends a block: it begins with an ending keyword and the lines from
\* a line that begins with transitions up to it do not
EndsBlock(lines, n) ==
  /\ lines[n].kind \in EndingKeywords
  /\ \E b \in 1..(n - 1) :
       /\ lines[b].kind = "transitions"
       /\ \A m \in (b + 1)..(n - 1) : lines[m].kind \notin EndingKeywords

\* the number of times a loop has read line n
VisitsOf(by, n) == Cardinality({k \in 1..Len(visits) : visits[k] = [by |-> by, line |-> n]})

\* C23: a transitions block ends at the first following non-blank line that
\* begins with name, states, symbols, startstate or acceptstate, or at the
\* end of the input: the lines of the block are read by parseTransitions
\* only, once each, the blank ones without effect; the line that ends the
\* block is looked at by parseTransitions and then parsed by parseFields as
\* the declaration it is; every other line is read by parseFields once.
\* When the lines are through, or a line has made the parser throw, the
\* parser is as the two loops run as a whole leave it.
C23_BlockTermination ==
  /\ \A n \in 1..Len(text) :
       /\ VisitsOf("parseFields", n) <= (IF InBlock(text, n) THEN 0 ELSE 1)
       /\ VisitsOf("parseTransitions", n) <= (IF InBlock(text, n) \/ EndsBlock(text, n) THEN 1 ELSE 0)
  /\ \A k \in 1..Len(visits) :
       \* the line that ends a block, read as its own declaration
       (visits[k].by = "parseFields" /\ EndsBlock(text, visits[k].line) /\ k < Len(visits)) =>
          /\ visits[k - 1] = [by |-> "parseTransitions", line |-> visits[k].line]
          /\ visits[k + 1].line = visits[k].line + 1
  /\ pc \in {"normalize", "validateRules", "returned"} =>
       /\ \A n \in 1..Len(text) :
            /\ VisitsOf("parseFields", n) = (IF InBlock(text, n) THEN 0 ELSE 1)
            /\ VisitsOf("parseTransitions", n) = (IF InBlock(text, n) \/ EndsBlock(text, n) THEN 1 ELSE 0)
       /\ authored = parseFields(NewParser, text).data
       /\ authored.name = "fsm" /\ authored.states = 2 /\ authored.startstate = 1
       /\ authored.acceptstate = 2 /\ authored.symbols = << <<"0">>, <<"1">> >>
       /\ DOMAIN authored.transitions =
            {parseInt(text[n].label) : n \in {m \in 1..Len(text) : text[m].rowOk}}
  /\ (pc = "thrown" /\ parseFields(NewParser, text).err # NoErr) =>
       /\ parser.err = parseFields(NewParser, text).err
       /\ parser.err.lineNumber = visits[Len(visits)].line
  \* no line is taken as a transition row but the non-blank lines of a block
  /\ (pc = "thrown" /\ parser.err.lineNumber > 0) =>
       LET last == visits[Len(visits)]
       IN /\ last.by = "parseTransitions"
          /\ InBlock(text, last.line)
          /\ text[last.line].kind = "transitions"
          /\ ~text[last.line].inline

\* a block with a blank line and a row in it, ended by startstate, the lines
\* after it read
C23_Witness ==
  /\ pc = "returned"
  /\ \E n \in 2..(Len(text) - 1) :
       /\ text[n].kind = "startstate"
       /\ EndsBlock(text, n)
       /\ InBlock(text, n - 1)
       /\ \E m \in 1..(n - 1) : InBlock(text, m) /\ text[m].kind = "blank"
       /\ \E m \in 1..(n - 1) : InBlock(text, m) /\ text[m].kind = "row"
       /\ VisitsOf("parseFields", n) = 1
       /\ VisitsOf("parseFields", n + 1) = 1

(***************************************************************************)
(* C24: UploadPage.handleValidate and the FSMProvider context              *)
(***************************************************************************)
\* an error text that always names line 0
messageOfLineZero(err) ==
  <<"Line ", 0, ": ",
    [msg |-> err.msg, fields |-> err.fields, actual |-> err.actual, expected |-> err.expected]>>

\* err.message of an FSMValidationError: super(`Line ${lineNumber}: ${message}`)
messageOf(err) ==
  <<"Line ", err.lineNumber, ": ",
    [msg |-> err.msg, fields |-> err.fields, actual |-> err.actual, expected |-> err.expected]>>

\* err.message of the Error a rejected file.text() gives
ReadErrorMessage == <<"The file could not be read">>

\* parseFSMFile(content), as one function of the content
parseFSMFileOf(fileContent) == parse(NewParser, fileContent)

\* the Files the user can choose: two names, contents that parse and
\* contents that fail at line 0 and at a line of the text
UploadFiles == [name : {"a.fsm", "b.fsm"}, content : CallTexts]

parseVars == <<text, pc, parser, authored, fsm, runVars, pending, calls, runs, genVars, loopVars>>

notUploadVars == <<parseVars, excelVars, wizardVars, testVars>>

\* handleFileSelect(selectedFile), from the drop zone or the file input
HandleFileSelect(selectedFile) ==
  /\ location = "/"
  /\ file' = <<selectedFile>>
  /\ error' = <<>>
  /\ UNCHANGED <<notUploadVars, isLoading, promise, context, location>>

\* handleValidate up to await file.text(); the button is disabled while no
\* file is chosen or isLoading, so the handler's !file branch is not reached
HandleValidate ==
  /\ location = "/"
  /\ file # <<>>
  /\ ~isLoading
  /\ isLoading' = TRUE
  /\ error' = <<>>
  /\ promise' = <<[file |-> file[1], state |-> "pending"]>>
  /\ UNCHANGED <<notUploadVars, file, context, location>>

\* file.text() settles
FileTextSettles ==
  /\ promise # <<>>
  /\ promise[1].state = "pending"
  /\ \E settled \in {"fulfilled", "rejected"} :
       promise' = <<[promise[1] EXCEPT !.state = settled]>>
  /\ UNCHANGED <<notUploadVars, file, error, isLoading, context, location>>

\* setFSMData(data, name) of FSMProvider
setFSMData(data, name) == [fsmData |-> <<data>>, fileName |-> <<name>>]

\* handleValidate from the await on: try, catch, finally
HandleValidateResume ==
  /\ promise # <<>>
  /\ promise[1].state # "pending"
  /\ LET chosen == promise[1].file
         parsed == parseFSMFileOf(chosen.content)
     IN IF promise[1].state = "rejected"
        THEN /\ error' = ReadErrorMessage
             /\ UNCHANGED <<context, location>>
        ELSE IF parsed.err # NoErr
        THEN /\ error' = messageOf(parsed.err)
             /\ UNCHANGED <<context, location>>
        ELSE /\ context' = setFSMData(parsed.data, chosen.name)
             /\ location' = "/actions"
             /\ UNCHANGED error
  /\ isLoading' = FALSE
  /\ promise' = <<>>
  /\ UNCHANGED <<notUploadVars, file>>

\* UploadPage is mounted: its useState values are the initial ones
UploadPageMounts ==
  /\ file' = <<>>
  /\ error' = <<>>
  /\ isLoading' = FALSE
  /\ promise' = <<>>

\* ActionsPage.handleBack: clearFSMData(), navigate('/'); UploadPage mounts anew
HandleBack ==
  /\ location = "/actions"
  /\ context' = [fsmData |-> <<>>, fileName |-> <<>>]
  /\ location' = "/"
  /\ UploadPageMounts
  /\ UNCHANGED notUploadVars

\* the browser's back button on /actions: the route "/" again, the context kept
HistoryBack ==
  /\ location = "/actions"
  /\ location' = "/"
  /\ UploadPageMounts
  /\ UNCHANGED <<notUploadVars, context>>

InitUpload ==
  /\ text = <<>>
  /\ pc = "idle"
  /\ parser = NewParser
  /\ authored = NewParser.data
  /\ fsm = NewParser.data
  /\ RunIdle
  /\ SingleCall

NextUpload ==
  \/ \E selectedFile \in UploadFiles : HandleFileSelect(selectedFile)
  \/ HandleValidate
  \/ FileTextSettles
  \/ HandleValidateResume
  \/ HandleBack
  \/ HistoryBack

SpecUpload == InitUpload /\ [][NextUpload]_vars

\* C24: a validation that ends with a failed parse leaves the context as it
\* was, shows "Line <the error's line number>: <the error's message>" and
\* does not navigate; one that ends with a parsed FSMData stores that
\* FSMData with the name of the file it came from and is then on /actions;
\* isLoading is false when the validation ends, and true while it runs.
C24_UploadValidate ==
  [][/\ (promise # <<>> /\ promise' = <<>>) =>
          LET chosen == promise[1].file
              parsed == parse(NewParser, chosen.content)
          IN /\ isLoading /\ ~isLoading'
             /\ (promise[1].state = "fulfilled" /\ parsed.err # NoErr) =>
                  /\ context' = context
                  /\ location' = location
                  /\ Len(error') = 4
                  /\ error'[2] = parsed.err.lineNumber
                  /\ error'[4].msg = parsed.err.msg
                  /\ error'[4].fields = parsed.err.fields
             /\ (promise[1].state = "fulfilled" /\ parsed.err = NoErr) =>
                  /\ context'.fsmData = <<parsed.data>>
                  /\ context'.fileName = <<chosen.name>>
                  /\ location' = "/actions"
             /\ promise[1].state = "rejected" =>
                  /\ context' = context
                  /\ location' = location
     /\ (location = "/" /\ location' = "/actions") => (promise # <<>> /\ context'.fsmData # <<>>)
     /\ (promise = <<>> /\ promise' # <<>>) => (isLoading' /\ error' = <<>>)
    ]_vars

\* a second file failed at a line of its text while the context held the
\* first file's FSMData, brought back by the back button
C24_Witness ==
  /\ location = "/"
  /\ context.fsmData # <<>>
  /\ context.fileName = <<"a.fsm">>
  /\ file # <<>>
  /\ file[1].name = "b.fsm"
  /\ Len(error) = 4
  /\ error[2] > 0
  /\ ~isLoading
  /\ promise = <<>>

(***************************************************************************)
(* C26: getCorrectTiles of the Excel generator                             *)
(***************************************************************************)
positionLabels == <<"A", "B", "C", "D", "E", "F", "G", "H">>

\* the tile pushed for the transition found at pos
tileAt(p, length, state, nextStateNum) ==
  IF p = 0 THEN <<"A">> \o DigitStr(nextStateNum)
  ELSE LET posLabel == positionLabels[p + 1]
       IN IF p = length - 1
          THEN DigitStr(state) \o <<posLabel>>
          ELSE DigitStr(state) \o <<posLabel>> \o DigitStr(nextStateNum)

\* the for loop of getCorrectTiles from pos on: the first entry of the
\* current state's list with the symbol gives a tile and the next state; a
\* character without one is passed over
RECURSIVE getCorrectTilesLoop(_, _, _, _, _)
getCorrectTilesLoop(fsmData, in, p, state, acc) ==
  IF ~(p < Len(in)) THEN acc
  ELSE LET symbol == <<in[p + 1]>>
           transitions == IF state \in DOMAIN fsmData.transitions
                          THEN fsmData.transitions[state] ELSE <<>>
           hits == {k \in 1..Len(transitions) : transitions[k][1] = symbol}
       IN IF hits = {}
          THEN getCorrectTilesLoop(fsmData, in, p + 1, state, acc)
          ELSE LET nextStateNum == parseInt(transitions[Min(hits)][2])
               IN getCorrectTilesLoop(fsmData, in, p + 1, nextStateNum,
                                      Append(acc, tileAt(p, Len(in), state, nextStateNum)))

\* getCorrectTiles(fsmData, input)
getCorrectTiles(fsmData, in) == getCorrectTilesLoop(fsmData, in, 0, fsmData.startstate, <<>>)

\* getCorrectTiles for the experiment input the engine has just run
GetCorrectTiles ==
  /\ pc = "done"
  /\ tiles' = getCorrectTiles(fsm, input)
  /\ pc' = "tiles"
  /\ UNCHANGED <<text, parser, authored, fsm, runVars, pending, calls, runs, genVars,
                 loopVars, uploadVars, wizardVars, testVars>>

\* experiment inputs: what the user types, characters outside the symbols included
ExperimentInputs == UNION {[1..n -> Alphabet \cup {"2"}] : n \in 0..MaxInputLen}

\* definitions with an entry for each of the two symbols in every row,
\* 1-based and 0-based
TileFSMDatas ==
  {[name |-> "fsm", states |-> MaxStates, symbols |-> << <<"0">>, <<"1">> >>,
    transitions |-> [s \in (1 - z)..(MaxStates - z) |->
                       <<(<< <<"0">>, DigitStr(t[s + z][1]) >>), (<< <<"1">>, DigitStr(t[s + z][2]) >>)>>],
    startstate |-> start, acceptstate |-> accept, zeroIndexed |-> (z = 1)] :
     z \in 0..1, t \in [1..MaxStates -> [1..2 -> 0..MaxStates]],
     start \in 0..MaxStates, accept \in 0..MaxStates}

\* the FSMData in the context: one that validateRules lets through
InitTiles ==
  /\ fsm \in TileFSMDatas
  /\ validateRules([NewParser EXCEPT !.data = fsm,
                                     !.fieldsFound = {REQUIRED_FIELDS[k] : k \in 1..Len(REQUIRED_FIELDS)}]).err = NoErr
  /\ text = <<>>
  /\ pc = "returned"
  /\ parser = NewParser
  /\ authored = NewParser.data
  /\ RunIdle
  /\ SingleCall

NextTiles ==
  \/ \E in \in ExperimentInputs : RunFSM(in)
  \/ RunStep
  \/ RunReturn
  \/ GetCorrectTiles

SpecTiles == InitTiles /\ [][NextTiles]_vars

\* C26: getCorrectTiles yields one tile per transition runFSM takes on the
\* input, in the order of the path: length(path) - 1 tiles, tile k for the
\* transition from path[k].state to path[k+1].state, and none for a
\* character at or after one that has no transition.
C26_TilesFollowRun ==
  pc = "tiles" =>
    /\ Len(tiles) = Len(result.path) - 1
    /\ \A k \in 1..(Len(result.path) - 1) :
         k <= Len(tiles) =>
           tiles[k] = tileAt(k - 1, Len(input), result.path[k].state, result.path[k + 1].state)

(***************************************************************************)
(* C27: GenerateExcelPage, the four-step wizard                            *)
(***************************************************************************)
\* the for loop of runFSM from character p on, as one function
RECURSIVE runFSMLoop(_, _, _, _, _, _)
runFSMLoop(map, in, p, state, visited, acceptstate) ==
  IF ~(p < Len(in)) THEN completion(visited, state, acceptstate)
  ELSE LET symbol == <<in[p + 1]>>
           key == Key(state, symbol)
       IN IF key \notin DOMAIN map
          THEN rejection(visited, state, symbol)
          ELSE runFSMLoop(map, in, p + 1, map[key],
                          Append(visited, [state |-> map[key], symbol |-> symbol]), acceptstate)

\* runFSM(fsm, input), as one function
runFSMOf(fsmData, in) ==
  runFSMLoop(buildTransitionMap(<<>>, fsmData.transitions, DOMAIN fsmData.transitions), in, 0,
             fsmData.startstate, <<[state |-> fsmData.startstate, symbol |-> <<>>]>>,
             fsmData.acceptstate)

\* evaluateFSM(fsmData, input)
evaluateFSM(fsmData, in) ==
  LET runResult == runFSMOf(fsmData, in)
  IN [result |-> <<IF runResult.accepted THEN "ACCEPT" ELSE "REJECT">>,
      finalState |-> runResult.endState]

MaxExperiments == 2

\* the experiment initializeExperiments pushes (result <<>> is null)
EmptyExperiment ==
  [name |-> <<>>, fsmInput |-> <<>>, fluorophore |-> <<"A", "N", "S", " ", "N">>,
   result |-> <<>>, finalState |-> null]

\* initializeExperiments()
initializeExperiments(count) == [i \in 1..count |-> EmptyExperiment]

\* updateExperiment(index, field, value): the updated list
updateExperiment(list, fsmData, index, field, value) ==
  LET changed == [list[index] EXCEPT ![field] = value]
      evaluated == IF field = "fsmInput" /\ trim(value) # <<>>
                   THEN LET evalResult == evaluateFSM(fsmData, trim(value))
                        IN [changed EXCEPT !.result = evalResult.result,
                                           !.finalState = evalResult.finalState]
                   ELSE changed
  IN [list EXCEPT ![index] = evaluated]

\* a blank test that takes white space for text
isEmptyString(s) == s = <<>>

\* !s.trim()
isBlank(s) == trim(s) = <<>>

\* what validateExperiments finds wrong with an experiment, <<>> if nothing
experimentFault(exp) ==
  IF isBlank(exp.name) THEN <<"is missing a name">>
  ELSE IF isBlank(exp.fsmInput) THEN <<"is missing an FSM input value">>
  ELSE IF isBlank(exp.fluorophore) THEN <<"is missing a fluorophore">>
  ELSE IF exp.result = <<>> THEN <<"has an invalid FSM input">>
  ELSE <<>>

\* validateExperiments(): the error it sets, <<>> when it returns true
validateExperiments(list) ==
  LET faulty == {i \in 1..Len(list) : experimentFault(list[i]) # <<>>}
  IN IF faulty = {} THEN <<>>
     ELSE <<"Experiment", Min(faulty)>> \o experimentFault(list[Min(faulty)])

notWizardVars == <<parseVars, uploadVars, excelVars, testVars>>

\* onChange of the experiment count: parseInt(e.target.value) || 1
SetExperimentCount(value) ==
  /\ currentStep = "count"
  /\ experimentCount' = IF value = 0 THEN 1 ELSE value
  /\ UNCHANGED <<notWizardVars, currentStep, experiments, stockConcentration, targetConcentration,
                 totalVolume, excelError>>

\* onChange of an experiment's name, FSM input or fluorophore
UpdateExperiment(index, field, value) ==
  /\ currentStep = "experiments"
  /\ index \in 1..Len(experiments)
  /\ experiments' = updateExperiment(experiments, context.fsmData[1], index, field, value)
  /\ UNCHANGED <<notWizardVars, currentStep, experimentCount, stockConcentration,
                 targetConcentration, totalVolume, excelError>>

\* onChange of the stock concentration: parseFloat(e.target.value) || 50
SetStockConcentration(value) ==
  /\ currentStep = "concentrations"
  /\ stockConcentration' = IF value = 0 THEN 50 ELSE value
  /\ UNCHANGED <<notWizardVars, currentStep, experimentCount, experiments, targetConcentration,
                 totalVolume, excelError>>

\* onChange of the target concentration: parseFloat(e.target.value) || 0
SetTargetConcentration(value) ==
  /\ currentStep = "concentrations"
  /\ targetConcentration' = value
  /\ UNCHANGED <<notWizardVars, currentStep, experimentCount, experiments, stockConcentration,
                 totalVolume, excelError>>

\* onChange of the total volume: parseFloat(e.target.value) || 0
SetTotalVolume(value) ==
  /\ currentStep = "concentrations"
  /\ totalVolume' = value
  /\ UNCHANGED <<notWizardVars, currentStep, experimentCount, experiments, stockConcentration,
                 targetConcentration, excelError>>

\* handleNext(); the button is not shown on the last step
HandleNext ==
  /\ currentStep # "generate"
  /\ CASE currentStep = "count" ->
            IF experimentCount < 1
            THEN /\ excelError' = <<"You must have at least 1 experiment">>
                 /\ UNCHANGED <<currentStep, experiments>>
            ELSE /\ experiments' = initializeExperiments(experimentCount)
                 /\ currentStep' = "experiments"
                 /\ excelError' = <<>>
       [] currentStep = "experiments" ->
            /\ excelError' = validateExperiments(experiments)
            /\ currentStep' = IF excelError' = <<>> THEN "concentrations" ELSE currentStep
            /\ UNCHANGED experiments
       [] currentStep = "concentrations" ->
            /\ excelError' = IF targetConcentration <= 0
                             THEN <<"Target concentration must be greater than 0">>
                             ELSE IF totalVolume <= 0
                             THEN <<"Total volume must be greater than 0">>
                             ELSE <<>>
            /\ currentStep' = IF excelError' = <<>> THEN "generate" ELSE currentStep
            /\ UNCHANGED experiments
  /\ UNCHANGED <<notWizardVars, experimentCount, stockConcentration, targetConcentration, totalVolume>>

\* handleBack(); the button is disabled on the first step
HandleBackStep ==
  /\ currentStep # "count"
  /\ excelError' = <<>>
  /\ currentStep' = CASE currentStep = "experiments" -> "count"
                      [] currentStep = "concentrations" -> "experiments"
                      [] currentStep = "generate" -> "concentrations"
  /\ UNCHANGED <<notWizardVars, experimentCount, experiments, stockConcentration,
                 targetConcentration, totalVolume>>

\* handleGenerate(): the workbook is built and downloaded, the page's state
\* is left with the error cleared
HandleGenerate ==
  /\ currentStep = "generate"
  /\ excelError' = <<>>
  /\ UNCHANGED <<notWizardVars, currentStep, experimentCount, experiments, stockConcentration,
                 targetConcentration, totalVolume>>

\* what the user can type
NameValues == {<<" ">>, <<"D">>}
FsmInputValues == {<<" ">>, <<"1">>, <<"1", "2">>}
FluorophoreValues == {<<>>, <<"A", "N", "S", " ", "N">>}

\* the page is entered with an FSMData in the context
InitWizard ==
  /\ context = setFSMData(
       [name |-> "fsm", states |-> 2, symbols |-> << <<"0">>, <<"1">> >>,
        transitions |-> <<(<< << <<"0">>, <<"1">> >>, << <<"1">>, <<"2">> >> >>),
                          (<< << <<"0">>, <<"2">> >>, << <<"1">>, <<"1">> >> >>)>>,
        startstate |-> 1, acceptstate |-> 2, zeroIndexed |-> FALSE], "a.fsm")
  /\ location = "/generate-excel"
  /\ WizardMounted
  /\ TestPageMounted
  /\ UploadMounted
  /\ LoopsIdle
  /\ tiles = <<>>
  /\ pending = <<>> /\ calls = <<>> /\ runs = <<>> /\ chunks = <<>> /\ steps = <<>>
  /\ text = <<>>
  /\ pc = "idle"
  /\ parser = NewParser
  /\ authored = NewParser.data
  /\ fsm = NewParser.data
  /\ RunIdle

NextWizard ==
  \/ \E value \in -1..MaxExperiments : SetExperimentCount(value)
  \/ \E index \in 1..MaxExperiments :
       \/ \E value \in NameValues : UpdateExperiment(index, "name", value)
       \/ \E value \in FsmInputValues : UpdateExperiment(index, "fsmInput", value)
       \/ \E value \in FluorophoreValues : UpdateExperiment(index, "fluorophore", value)
  \/ \E value \in {0, 1} : SetStockConcentration(value)
  \/ \E value \in {0, 1} : SetTargetConcentration(value)
  \/ \E value \in {0, 80} : SetTotalVolume(value)
  \/ HandleNext
  \/ HandleBackStep
  \/ HandleGenerate

SpecWizard == InitWizard /\ [][NextWizard]_vars

\* the experiments and numbers the last step needs
ReadyToGenerate ==
  /\ Len(experiments) >= 1
  /\ \A i \in 1..Len(experiments) :
       /\ \E k \in 1..Len(experiments[i].name) : experiments[i].name[k] # " "
       /\ \E k \in 1..Len(experiments[i].fsmInput) : experiments[i].fsmInput[k] # " "
       /\ \E k \in 1..Len(experiments[i].fluorophore) : experiments[i].fluorophore[k] # " "
       /\ experiments[i].result \in {<<"ACCEPT">>, <<"REJECT">>}
  /\ targetConcentration > 0
  /\ totalVolume > 0

StepNumber(step) ==
  CASE step = "count" -> 1
    [] step = "experiments" -> 2
    [] step = "concentrations" -> 3
    [] step = "generate" -> 4

\* C27: on the step generate there is at least one experiment, every
\* experiment has a non-blank name, FSM input and fluorophore and a result,
\* and targetConcentration and totalVolume are positive; the step changes
\* only to the next one (by Next) or to the one before (by Back).
C27_WizardSafety ==
  [][/\ currentStep' = "generate" => ReadyToGenerate'
     /\ currentStep' # currentStep =>
          \/ StepNumber(currentStep') = StepNumber(currentStep) + 1
          \/ StepNumber(currentStep') = StepNumber(currentStep) - 1
     /\ StepNumber(currentStep') = StepNumber(currentStep) + 1 =>
          /\ excelError' = <<>>
          /\ currentStep = "experiments" => validateExperiments(experiments) = <<>>
    ]_vars

\* the last step reached a second time, after going back and changing an
\* experiment's input to one the engine rejects
C27_Witness ==
  /\ currentStep = "generate"
  /\ Len(experiments) = 2
  /\ experiments[1].result = <<"ACCEPT">>
  /\ experiments[2].result = <<"REJECT">>
  /\ experiments[2].fsmInput = <<"1", "2">>
  /\ targetConcentration = 1
  /\ totalVolume = 80
  /\ stockConcentration = 1

(***************************************************************************)
(* C28, C29: TestFSMPage, the animation of a run                           *)
(***************************************************************************)
\* a timer that comes back to the step it was set at
sameStep(step) == step

\* animateStep(path, step + 1) of the timer callback
nextStep(step) == step + 1

notTestVars == <<parseVars, uploadVars, excelVars, wizardVars>>

\* animateStep(path, step), with the timers left after the caller took its own
AnimateStep(p, step, rest) ==
  IF step >= Len(p)
  THEN /\ isAnimating' = FALSE
       /\ highlightedTransition' = <<>>
       /\ timers' = rest
       /\ UNCHANGED <<testCurrentState, testCurrentStep>>
  ELSE /\ testCurrentState' = p[step + 1].state
       /\ testCurrentStep' = step
       /\ highlightedTransition' =
            IF step > 0 /\ p[step].symbol # <<>>
            THEN <<[from |-> p[step].state, symbol |-> p[step].symbol]>>
            ELSE <<>>
       /\ timers' = Append(rest, [path |-> p, step |-> nextStep(step)])
       /\ UNCHANGED isAnimating

\* onChange of the input field, disabled while animating
SetInput(value) ==
  /\ ~isAnimating
  /\ testInput' = value
  /\ UNCHANGED <<notTestVars, testResult, testCurrentState, highlightedTransition, isAnimating,
                 testCurrentStep, timers>>

\* handleTest(): Run is disabled for a blank input and while animating; the
\* path runFSM returns is never empty, so animateStep(path, 0) shows index 0
\* and sets the first timer
HandleTest ==
  /\ ~isBlank(testInput)
  /\ ~isAnimating
  /\ LET testResultNow == runFSMOf(context.fsmData[1], testInput)
     IN /\ testResult' = <<testResultNow>>
        /\ isAnimating' = TRUE
        /\ testCurrentStep' = 0
        /\ testCurrentState' = testResultNow.path[1].state
        /\ highlightedTransition' = <<>>
        /\ timers' = Append(timers, [path |-> testResultNow.path, step |-> nextStep(0)])
  /\ UNCHANGED <<notTestVars, testInput>>

\* the timer set first fires: animateStep(path, step + 1)
TimerFires ==
  /\ timers # <<>>
  /\ AnimateStep(Head(timers).path, Head(timers).step, Tail(timers))
  /\ UNCHANGED <<notTestVars, testInput, testResult>>

\* handleReset(), disabled while animating
HandleReset ==
  /\ ~isAnimating
  /\ testInput' = <<>>
  /\ testResult' = <<>>
  /\ testCurrentState' = null
  /\ highlightedTransition' = <<>>
  /\ isAnimating' = FALSE
  /\ testCurrentStep' = 0
  /\ UNCHANGED <<notTestVars, timers>>

\* what the user can type into the field
TestInputs == Inputs \cup {<<"2", "0">>, <<" ">>, <<" ", "0">>}

\* the page is entered with a parsed FSMData in the context
InitTest ==
  /\ \E data \in TileFSMDatas :
       /\ data.startstate = data.acceptstate
       /\ validateRules([NewParser EXCEPT !.data = data,
                           !.fieldsFound = {REQUIRED_FIELDS[k] : k \in 1..Len(REQUIRED_FIELDS)}]).err = NoErr
       /\ context = setFSMData(data, "a.fsm")
  /\ location = "/test-fsm"
  /\ TestPageMounted
  /\ WizardMounted
  /\ UploadMounted
  /\ LoopsIdle
  /\ tiles = <<>>
  /\ pending = <<>> /\ calls = <<>> /\ runs = <<>> /\ chunks = <<>> /\ steps = <<>>
  /\ text = <<>>
  /\ pc = "idle"
  /\ parser = NewParser
  /\ authored = NewParser.data
  /\ fsm = NewParser.data
  /\ RunIdle

NextTest ==
  \/ \E value \in TestInputs : SetInput(value)
  \/ HandleTest
  \/ TimerFires
  \/ HandleReset

SpecTest == InitTest /\ [][NextTest]_vars

\* a timer that has been set fires: setTimeout(..., 800) in a browser
SpecTestFair == SpecTest /\ WF_vars(TimerFires)

\* C28: while the animation runs, at step k >= 1 the state shown is
\* path[k].state and the highlighted transition is the one the engine took
\* to reach it, from path[k-1].state on path[k].symbol; at step 0 nothing
\* is highlighted.
C28_HighlightIsTransitionTaken ==
  (isAnimating /\ testResult # <<>>) =>
    LET p == testResult[1].path
        k == testCurrentStep
    IN /\ testCurrentState = p[k + 1].state
       /\ k = 0 => highlightedTransition = <<>>
       /\ k >= 1 => highlightedTransition = <<[from |-> p[k].state, symbol |-> p[k + 1].symbol]>>

\* C29: after Run the timers show the path's indices 0, 1, ...,
\* length(path) - 1 in order, one more at each firing, and the firing after
\* the last index sets isAnimating to false and clears the highlight; Run
\* and Reset do nothing while isAnimating, at most one timer is pending at
\* any time (one exactly while isAnimating), and isAnimating becomes false
\* again when pending timers fire.
C29_AnimationTerminates ==
  /\ [](Len(timers) <= 1)
  /\ [](isAnimating <=> timers # <<>>)
  /\ [][/\ (~isAnimating /\ isAnimating') =>
             /\ ~isBlank(testInput)
             /\ testCurrentStep' = 0
             /\ testResult' = <<runFSMOf(context.fsmData[1], testInput)>>
        /\ isAnimating =>
             /\ testResult' = testResult /\ testInput' = testInput
             /\ \/ UNCHANGED testVars
                \/ /\ isAnimating'
                   /\ testCurrentStep' = testCurrentStep + 1
                   /\ testCurrentStep' <= Len(testResult[1].path) - 1
                   /\ testCurrentState' = testResult[1].path[testCurrentStep' + 1].state
                \/ /\ ~isAnimating'
                   /\ testCurrentStep = Len(testResult[1].path) - 1
                   /\ highlightedTransition' = <<>>
                   /\ UNCHANGED <<testCurrentStep, testCurrentState>>
       ]_vars
  /\ (isAnimating ~> ~isAnimating)

\* an animation over a path of three entries has ended
C29_Witness ==
  /\ ~isAnimating
  /\ timers = <<>>
  /\ testResult # <<>>
  /\ Len(testResult[1].path) = 3
  /\ testCurrentStep = 2
  /\ testCurrentState = testResult[1].path[3].state
  /\ highlightedTransition = <<>>

(***************************************************************************)
(* C25: the run stays in the canonical range                               *)
(***************************************************************************)
\* 0..states-1 when zeroIndexed, 1..states otherwise
CanonicalRange(f) == IF f.zeroIndexed THEN 0..(f.states - 1) ELSE 1..f.states

\* C25: on an FSMData that parse returned, for every input, every state of
\* the path runFSM builds and returns, and the endState, lie in the
\* canonical range, and each of them has a transition list.
C25_RunClosure ==
  pc \in {"loop", "done"} =>
    /\ currentState \in CanonicalRange(fsm)
    /\ \A k \in 1..Len(path) :
         /\ path[k].state \in CanonicalRange(fsm)
         /\ path[k].state \in DOMAIN fsm.transitions
    /\ pc = "done" =>
         /\ result.endState \in CanonicalRange(fsm)
         /\ result.endState \in DOMAIN fsm.transitions
         /\ \A k \in 1..Len(result.path) :
              /\ result.path[k].state \in CanonicalRange(fsm)
              /\ result.path[k].state \in DOMAIN fsm.transitions

\* a run of three transitions over both states of a 0-based definition
C25_Witness ==
  /\ pc = "done"
  /\ fsm.zeroIndexed
  /\ fsm.states = 2
  /\ Len(result.path) = 4
  /\ {result.path[k].state : k \in 1..4} = {0, 1}
  /\ result.endState = 1

(***************************************************************************)
(* C30: parse called again on the same FSMParser                           *)
(***************************************************************************)
\* parser.parse(content) once more on the instance of the call that has
\* ended: data, fieldsFound and currentLine are the instance's fields, set
\* by the constructor only, and the exception of a failed call is gone
ParseOnSameInstance ==
  /\ pc \in {"returned", "thrown"}
  /\ pending # <<>>
  /\ calls' = Append(calls, [text |-> text, outcome |-> pc, data |-> parser.data, err |-> parser.err])
  /\ text' = Head(pending)
  /\ pending' = Tail(pending)
  /\ parser' = [parser EXCEPT !.err = NoErr]
  /\ authored' = NewParser.data
  /\ pc' = "checkRequiredFields"
  /\ UNCHANGED <<fsm, runVars, runs, genVars, otherVars>>

\* two texts for one parser
InitReuse ==
  /\ text \in CallTexts
  /\ pending \in [1..1 -> CallTexts]
  /\ calls = <<>>
  /\ runs = <<>>
  /\ chunks = <<>>
  /\ steps = <<>>
  /\ OthersIdle
  /\ pc = "checkRequiredFields"
  /\ parser = NewParser
  /\ authored = NewParser.data
  /\ fsm = NewParser.data
  /\ RunIdle

NextReuse ==
  \/ NextParse
  \/ ParseOnSameInstance

SpecReuse == InitReuse /\ [][NextReuse]_vars

\* C30: the second call of parse on the same FSMParser ends as parse on a
\* parser just constructed ends for the second text, with the same FSMData
\* or the same error, and the FSMData the first call returned (the
\* instance's data object) still holds what it held when it was returned.
C30_SameInstanceReuse ==
  (Len(calls) = 1 /\ pc \in {"returned", "thrown"}) =>
    LET alone == parse(NewParser, text)
        returnedFirst == parser.data
    IN /\ pc = (IF alone.err = NoErr THEN "returned" ELSE "thrown")
       /\ parser.err = alone.err
       /\ pc = "returned" => fsm = alone.data
       /\ calls[1].outcome = "returned" => returnedFirst = calls[1].data

====
